---- MODULE Spec2Model ----
(***************************************************************************)
(* Game-client request authentication (server/requests) and highscore      *)
(* retention (server/highscore_tables) of topbanana-backend.                *)
(*                                                                         *)
(* Time is counted in milliseconds.  Uuids are integers: request uuids are *)
(* 1..NumRequestUuids, game uuids are 101.., table uuids are 201...        *)
(* A base64url text is a record [form, content]: form "ok" stands for the  *)
(* encoding of content, the other forms for texts the decoder rejects.     *)
(* A digest is the record [alg, preimage]: the hash functions are taken to *)
(* be collision free and SHA-1 and SHA-256 never to agree.                 *)
(***************************************************************************)
EXTENDS Integers, Sequences, FiniteSets, TLC

VARIABLES
  historical_requests,      \* rows of table historical_requests
  highscore_table_entries,  \* rows of table highscore_table_entries
  entry_id_seq,             \* serial of highscore_table_entries.id
  clock,                    \* the time now, in milliseconds
  last,                     \* history: the record of the latest call ({} before any)
  returned,                 \* history: per request uuid, calls that returned a body (0, 1, 2 = more than one)
  tasks,                    \* the concurrent calls in flight
  submitted                 \* history: every highscore entry ever committed

vars == <<historical_requests, highscore_table_entries, entry_id_seq, clock, last, returned,
          tasks, submitted>>

\* ------------------------------------------------------------------ bounds
NumRequestUuids == 2
MaxClockSteps == 2
NumTasks == 2
NumScoreRequests == 3
MaxRetained == 2
NumListRequests == 4
MaxTextLen == 4
NumDevelopers == 3
MaxDays == 10
MaxLevelCode == 20

\* ------------------------------------------------------------------- time
Seconds(n) == n * 1000
Days(n) == Seconds(n * 86400)

\* requests/mod.rs: TIME_SKEW = TimeDelta::days(2)
TIME_SKEW == Days(2)

\* The clock at the start of every behaviour; it advances in half seconds.
Epoch == Days(3)
ClockStep == Seconds(1) \div 2

Abs(x) == IF x < 0 THEN -x ELSE x

\* ---------------------------------------------------------------- hashers
RequestAlgorithm == {"sha1", "sha256"}

into_hasher(algo) == IF algo = "sha1" THEN "Sha1Hasher" ELSE "Sha256Hasher"

security_level(hasher) == IF hasher = "Sha1Hasher" THEN "Low" ELSE "High"

i32_from(level) == IF level = "Low" THEN 0 ELSE 10

apply_hash(hasher, buf) ==
  [alg |-> IF hasher = "Sha1Hasher" THEN "SHA-1" ELSE "SHA-256", preimage |-> buf]

\* ------------------------------------------------------------ stored games
SecurityLevel_default_Low == "Low"

\* impl Default for SecurityLevel
SecurityLevel_default == "High"

\* Option<SecurityLevel>::unwrap_or_default (None is << >>, Some(l) is <<l>>)
unwrap_or_default(level) == IF level = << >> THEN SecurityLevel_default ELSE level[1]

\* create_game: models::NewGame { game_uuid, game_secret_key,
\* security_level: params.security_level.unwrap_or_default(), .. }; the
\* level is stored as its integer.
NewGame(game_uuid, game_secret_key, level) ==
  [game_uuid |-> game_uuid, game_secret_key |-> game_secret_key,
   security_level |-> i32_from(unwrap_or_default(level))]

\* The games created without a security level.
DefaultLevelGames == {NewGame(101, "K1", << >>)}

\* Rows of table games: a game created without a security level, which
\* demands the High level, and one created with Low.
games == DefaultLevelGames \cup {NewGame(102, "K2", <<"Low">>)}

GameUuids == {101, 102, 103}
RequestUuids == 1..NumRequestUuids
SecretKeys == {g.game_secret_key : g \in games}

\* ------------------------------------------------------------ base64 texts
Base64(content) == [form |-> "ok", content |-> content]

\* URL_SAFE.decode
URL_SAFE_decode(text) ==
  IF text.form = "badb64" THEN [ok |-> FALSE, bytes |-> text.content]
  ELSE [ok |-> TRUE, bytes |-> text.content]

\* --------------------------------------------------------- request results
Ok(body) == [kind |-> "Ok", detail |-> "", body |-> <<body>>]
Err(kind, detail) == [kind |-> kind, detail |-> detail, body |-> << >>]

\* ------------------------------------------------- GameRequestPayload::verify
FullPayload(payload_base64, secret_key) == <<payload_base64, secret_key>>

verify_NoCompare(payload, secret_key, hasher) ==
  URL_SAFE_decode(payload.signature_base64).ok

verify(payload, secret_key, hasher) ==
  LET full_payload == FullPayload(payload.payload_base64, secret_key)
      expected_signature == apply_hash(hasher, full_payload)
      given_signature == URL_SAFE_decode(payload.signature_base64)
  IN  IF ~given_signature.ok THEN FALSE
      ELSE IF expected_signature # given_signature.bytes THEN FALSE
      ELSE TRUE

\* -------------------------------------------- GameRequestPayload::deserialize
deserialize_Base64Only(payload) ==
  LET text == payload.payload_base64
  IN  IF ~URL_SAFE_decode(text).ok THEN Err("DeserializeError", "Base64Error")
      ELSE Ok(text.content)

deserialize(payload) ==
  LET text == payload.payload_base64
  IN  IF ~URL_SAFE_decode(text).ok THEN Err("DeserializeError", "Base64Error")
      ELSE IF text.form = "badutf8" THEN Err("DeserializeError", "Utf8Error")
      ELSE IF text.form = "badjson" \/ text.content.algo \notin RequestAlgorithm
        THEN Err("DeserializeError", "JsonError")
      ELSE Ok(text.content)

\* ------------------------------------------------- the verification steps
find_game_OrAny(game_uuid) ==
  IF \E g \in games : g.game_uuid = game_uuid
    THEN {g \in games : g.game_uuid = game_uuid}
    ELSE {CHOOSE g \in games : TRUE}

\* .filter(games::game_uuid.eq(body.game_uuid)).first().optional()
find_game(game_uuid) == {g \in games : g.game_uuid = game_uuid}

LevelTooLow_Reversed(hasher, level) == i32_from(security_level(hasher)) > level

\* if i32::from(hasher.security_level()) < security_level
LevelTooLow(hasher, level) == i32_from(security_level(hasher)) < level

TimestampNotCurrent_Exclusive(now, request_timestamp) ==
  Abs(now - Seconds(request_timestamp)) >= TIME_SKEW

\* if time_diff.abs() > Self::TIME_SKEW
TimestampNotCurrent(now, request_timestamp) ==
  Abs(now - Seconds(request_timestamp)) > TIME_SKEW

\* Variant: the signature is checked before the security level.
check_request_SignatureFirst(payload, now) ==
  LET d == deserialize(payload)
  IN  IF d.kind # "Ok" THEN d
      ELSE
        LET body == d.body[1]
            hasher == into_hasher(body.algo)
            found == find_game(body.game_uuid)
        IN  IF found = {} THEN Err("NoSuchGame", "")
            ELSE
              LET game == CHOOSE g \in found : TRUE
              IN  IF ~verify(payload, game.game_secret_key, hasher)
                    THEN Err("VerificationError", "")
                  ELSE IF LevelTooLow(hasher, game.security_level)
                    THEN Err("SecurityLevelNotAttained", "")
                  ELSE IF TimestampNotCurrent(now, body.request_timestamp)
                    THEN Err("BadRequestTimestamp", "")
                  ELSE Ok(body)

\* full_verify_at_time up to the timestamp check: deserialize, look the game
\* up, security level, signature, timestamp.  None of it writes.
check_request(payload, now) ==
  LET d == deserialize(payload)
  IN  IF d.kind # "Ok" THEN d
      ELSE
        LET body == d.body[1]
            hasher == into_hasher(body.algo)
            found == find_game(body.game_uuid)
        IN  IF found = {} THEN Err("NoSuchGame", "")
            ELSE
              LET game == CHOOSE g \in found : TRUE
              IN  IF LevelTooLow(hasher, game.security_level)
                    THEN Err("SecurityLevelNotAttained", "")
                  ELSE IF ~verify(payload, game.game_secret_key, hasher)
                    THEN Err("VerificationError", "")
                  ELSE IF TimestampNotCurrent(now, body.request_timestamp)
                    THEN Err("BadRequestTimestamp", "")
                  ELSE Ok(body)

request_exists_Never(rows, request_uuid) == FALSE

\* select(exists(historical_requests.filter(request_uuid.eq(..))))
request_exists(rows, request_uuid) ==
  \E r \in rows : r.request_uuid = request_uuid

NewHistoricalRequest_GameUuid(body) == [request_uuid |-> body.game_uuid]

\* models::NewHistoricalRequest { request_uuid: body.request_uuid }
NewHistoricalRequest(body) == [request_uuid |-> body.request_uuid]

\* The uniqueness constraint of historical_requests.request_uuid.
UniqueViolation(rows, new_row) ==
  \E r \in rows : r.request_uuid = new_row.request_uuid

\* The column timestamp is not among the fields of
\* models::NewHistoricalRequest: the store fills it in with its own time
\* when the row is inserted.
historical_request_timestamp_default(now) == now

insert_historical_request_AnyConflict(rows, new_row, now) ==
  IF rows # {}
    THEN [error |-> "UniqueViolation", rows |-> rows]
    ELSE [error |-> "",
          rows |-> rows \cup {[request_uuid |-> new_row.request_uuid,
                               timestamp |-> historical_request_timestamp_default(now)]}]

\* insert_into(historical_requests).values(&new_row).execute(db): the store
\* stamps the row with its time.
insert_historical_request(rows, new_row, now) ==
  IF UniqueViolation(rows, new_row)
    THEN [error |-> "UniqueViolation", rows |-> rows]
    ELSE [error |-> "",
          rows |-> rows \cup {[request_uuid |-> new_row.request_uuid,
                               timestamp |-> historical_request_timestamp_default(now)]}]

commit_request_IgnoreError(rows, body, now) ==
  [result |-> Ok(body),
   rows |-> insert_historical_request(rows, NewHistoricalRequest(body), now).rows]

\* The insert that ends full_verify_at_time: .execute(db).await?; Ok(body)
commit_request(rows, body, now) ==
  LET ins == insert_historical_request(rows, NewHistoricalRequest(body), now)
  IN  IF ins.error # "" THEN [result |-> Err("DieselError", ins.error), rows |-> rows]
      ELSE [result |-> Ok(body), rows |-> ins.rows]

\* Variant: the request uuid is recorded before the timestamp is looked at.
full_verify_at_time_EarlyInsert(payload, db, now) ==
  LET d == deserialize(payload)
      c == check_request(payload, now)
  IN  IF c.kind = "BadRequestTimestamp" /\ ~request_exists(db, d.body[1].request_uuid)
        THEN [result |-> c, rows |-> commit_request(db, d.body[1], now).rows]
      ELSE IF c.kind # "Ok" THEN [result |-> c, rows |-> db]
      ELSE IF request_exists(db, c.body[1].request_uuid)
        THEN [result |-> Err("RequestAlreadySeen", ""), rows |-> db]
      ELSE commit_request(db, c.body[1], now)

\* GameRequestBody::full_verify_at_time, run with nothing in between its
\* queries: the result and the rows of historical_requests afterwards.
full_verify_at_time(payload, db, now) ==
  LET c == check_request(payload, now)
  IN  IF c.kind # "Ok" THEN [result |-> c, rows |-> db]
      ELSE IF request_exists(db, c.body[1].request_uuid)
        THEN [result |-> Err("RequestAlreadySeen", ""), rows |-> db]
      ELSE commit_request(db, c.body[1], now)

\* ------------------------------------------------------------- responses
\* impl From<DieselError> for ApiError
ApiError_from_diesel(detail) ==
  IF detail = "NotFound" THEN [status |-> 404, message |-> "Not Found"]
  ELSE IF detail = "UniqueViolation" THEN [status |-> 409, message |-> "Uniqueness error"]
  ELSE IF detail = "ForeignKeyViolation"
    THEN [status |-> 400, message |-> "Foreign key violation"]
  ELSE [status |-> 500, message |-> "An unexpected database error occurred"]

\* impl From<RequestBodyVerifyError> for ApiError
ApiError_from(e) ==
  CASE e.kind = "DeserializeError" -> [status |-> 400, message |-> "Bad Request"]
    [] e.kind = "DieselError" -> ApiError_from_diesel(e.detail)
    [] e.kind = "VerificationError" -> [status |-> 403, message |-> "Forbidden"]
    [] e.kind = "BadRequestTimestamp" -> [status |-> 403, message |-> "Forbidden"]
    [] e.kind = "RequestAlreadySeen" -> [status |-> 403, message |-> "Forbidden"]
    [] e.kind = "NoSuchGame" -> [status |-> 404, message |-> "No such game"]
    [] e.kind = "SecurityLevelNotAttained" ->
         [status |-> 403, message |-> "Invalid low-security algorithm"]

\* ---------------------------------------------------------------- inputs
\* The fields a score submission merges into the envelope.
Params(table_uuid, player_score) ==
  [table_uuid |-> table_uuid, player_name |-> "Ann", player_score |-> player_score,
   player_score_metadata |-> << >>]

SecondsOf(ms) == ms \div 1000

\* request_timestamp is in whole seconds: both edges of the window around
\* Epoch, one second beyond each, and Epoch itself.
Timestamps ==
  { SecondsOf(Epoch - TIME_SKEW) - 1, SecondsOf(Epoch - TIME_SKEW), SecondsOf(Epoch),
    SecondsOf(Epoch + TIME_SKEW), SecondsOf(Epoch + TIME_SKEW) + 1 }

Bodies ==
  [game_uuid : GameUuids, request_uuid : RequestUuids, request_timestamp : Timestamps,
   algo : RequestAlgorithm, body : {Params(201, 10)}]

\* What a client holding secret `key` sends as the signature of a payload text.
Sign(algo, payload_base64, key) ==
  Base64(apply_hash(into_hasher(algo), FullPayload(payload_base64, key)))

OtherRequest(body) ==
  [body EXCEPT !.request_uuid = (body.request_uuid % NumRequestUuids) + 1]

\* The signatures tried with a body: either algorithm under either stored
\* secret, the game's signature of the same envelope with another
\* request_uuid, and a text that is not base64.
SignaturesFor(body) ==
  {Sign(a, Base64(body), k) : a \in RequestAlgorithm, k \in SecretKeys}
    \cup {Sign(body.algo, Base64(OtherRequest(body)), g.game_secret_key) :
            g \in find_game(body.game_uuid)}
    \cup {[form |-> "badb64", content |-> Sign(body.algo, Base64(body), "K1").content]}

GameRequestPayload(payload_base64, signature_base64) ==
  [payload_base64 |-> payload_base64, signature_base64 |-> signature_base64]

BodyOfPayload(payload) == payload.payload_base64.content

SampleBody ==
  [game_uuid |-> 102, request_uuid |-> 1, request_timestamp |-> SecondsOf(Epoch),
   algo |-> "sha1", body |-> Params(201, 10)]

\* Payload parts that do not deserialize, each with the signature a client
\* of game 102 would compute for it.
MalformedTexts ==
  {[form |-> f, content |-> SampleBody] : f \in {"badb64", "badutf8", "badjson"}}
    \cup {Base64([SampleBody EXCEPT !.algo = "md5"])}

Payloads ==
  UNION {{GameRequestPayload(Base64(b), s) : s \in SignaturesFor(b)} : b \in Bodies}
    \cup {GameRequestPayload(t, Sign("sha1", t, "K2")) : t \in MalformedTexts}

\* ------------------------------------------------- sequential verification
NoTasks == << >>

Init ==
  /\ historical_requests = {}
  /\ highscore_table_entries = {}
  /\ entry_id_seq = 1
  /\ clock = Epoch
  /\ last = {}
  /\ returned = [u \in RequestUuids |-> 0]
  /\ tasks = NoTasks
  /\ submitted = {}

Bump(count, result) ==
  IF result.kind # "Ok" THEN count
  ELSE [count EXCEPT ![result.body[1].request_uuid] = IF @ = 0 THEN 1 ELSE 2]

\* GameRequestBody::full_verify on one payload, start to end.
full_verify(payload) ==
  LET r == full_verify_at_time(payload, historical_requests, clock)
  IN  /\ historical_requests' = r.rows
      /\ last' = {[op |-> "full_verify", payload |-> payload, now |-> clock,
                   result |-> r.result, requests_before |-> historical_requests,
                   repeat |-> \E c \in last : c.payload = payload /\ c.result.kind = "Ok"]}
      /\ returned' = Bump(returned, r.result)
      /\ UNCHANGED <<highscore_table_entries, entry_id_seq, clock, tasks, submitted>>

Tick ==
  /\ clock < Epoch + MaxClockSteps * ClockStep
  /\ clock' = clock + ClockStep
  /\ UNCHANGED <<historical_requests, highscore_table_entries, entry_id_seq, last,
                 returned, tasks, submitted>>

\* A client sends a request when no call is being answered.
Request ==
  /\ last = {}
  /\ \E payload \in Payloads : full_verify(payload)

\* The client sends the envelope of the latest call once more.
Resend ==
  \E c \in last : c.op = "full_verify" /\ full_verify(c.payload)

\* The response of the latest call is delivered.
Respond ==
  /\ last # {}
  /\ last' = {}
  /\ UNCHANGED <<historical_requests, highscore_table_entries, entry_id_seq, clock,
                 returned, tasks, submitted>>

Next ==
  \/ Request
  \/ Resend
  \/ Respond
  \/ Tick

Spec == Init /\ [][Next]_vars

\* ------------------------------------------------- concurrent verification
\* Each task is one call of full_verify on its own connection; the calls
\* interleave at their queries.  pc: "idle", "exists" (about to run the
\* existence query), "insert" (about to run the insert), "done".
Tasks == 1..NumTasks

IdleTask == [pc |-> "idle", payload |-> << >>, now |-> Epoch, result |-> << >>, step |-> ""]

\* Envelopes of the concurrent calls: sha256, timestamp Epoch, signed with
\* either stored secret.
ConcPayloads ==
  UNION {{GameRequestPayload(Base64(b), Sign(b.algo, Base64(b), k)) : k \in SecretKeys} :
           b \in {x \in Bodies : x.algo = "sha256" /\ x.request_timestamp = SecondsOf(Epoch)}}

ConcInit ==
  /\ historical_requests = {}
  /\ highscore_table_entries = {}
  /\ entry_id_seq = 1
  /\ clock = Epoch
  /\ last = {}
  /\ returned = [u \in RequestUuids |-> 0]
  /\ tasks = [t \in Tasks |-> IdleTask]
  /\ submitted = {}

\* full_verify_at_time from its start to the timestamp check.
task_check(t, payload) ==
  /\ tasks[t].pc = "idle"
  /\ LET c == check_request(payload, clock)
     IN  tasks' = [tasks EXCEPT ![t] =
           IF c.kind # "Ok"
             THEN [pc |-> "done", payload |-> <<payload>>, now |-> clock,
                   result |-> <<c>>, step |-> "check"]
             ELSE [pc |-> "exists", payload |-> <<payload>>, now |-> clock,
                   result |-> << >>, step |-> "check"]]
  /\ UNCHANGED <<historical_requests, highscore_table_entries, entry_id_seq, clock, last,
                 returned, submitted>>

\* The existence query and the early return on a repeated request.
task_exists(t) ==
  /\ tasks[t].pc = "exists"
  /\ LET body == deserialize(tasks[t].payload[1]).body[1]
     IN  tasks' = [tasks EXCEPT ![t] =
           IF request_exists(historical_requests, body.request_uuid)
             THEN [@ EXCEPT !.pc = "done", !.step = "exists",
                            !.result = <<Err("RequestAlreadySeen", "")>>]
             ELSE [@ EXCEPT !.pc = "insert", !.step = "exists"]]
  /\ UNCHANGED <<historical_requests, highscore_table_entries, entry_id_seq, clock, last,
                 returned, submitted>>

\* The insert and the return.
task_insert(t) ==
  /\ tasks[t].pc = "insert"
  /\ LET body == deserialize(tasks[t].payload[1]).body[1]
         r == commit_request(historical_requests, body, clock)
     IN  /\ historical_requests' = r.rows
         /\ tasks' = [tasks EXCEPT ![t] =
              [@ EXCEPT !.pc = "done", !.step = "insert", !.result = <<r.result>>]]
         /\ returned' = Bump(returned, r.result)
  /\ UNCHANGED <<highscore_table_entries, entry_id_seq, clock, last, submitted>>

ConcNext ==
  \E t \in Tasks :
    \/ \E payload \in ConcPayloads : task_check(t, payload)
    \/ task_exists(t)
    \/ task_insert(t)

ConcSpec == ConcInit /\ [][ConcNext]_vars

\* ------------------------------------- concurrent calls on a used ledger
\* The ledger before the concurrent calls start: empty, or holding the row
\* of request uuid 1, recorded half a second before.
InitialLedgers == {{}, {[request_uuid |-> 1, timestamp |-> Epoch - ClockStep]}}

PairInit ==
  /\ historical_requests \in InitialLedgers
  /\ highscore_table_entries = {}
  /\ entry_id_seq = 1
  /\ clock = Epoch
  /\ last = {}
  /\ returned = [u \in RequestUuids |->
                   IF request_exists(historical_requests, u) THEN 1 ELSE 0]
  /\ tasks = [t \in Tasks |-> IdleTask]
  /\ submitted = {}

PairSpec == PairInit /\ [][ConcNext]_vars

\* -------------------------------------------------------- score submission
\* Rows of table highscore_tables joined with games: a table that retains
\* MaxRetained scores and one that retains all (maximum_scores_retained
\* None is << >>, Some(n) is <<n>>), both of game 102, and a table of game
\* 101 that retains all.
highscore_tables ==
  { [id |-> 1, game_uuid |-> 102, table_uuid |-> 201,
     maximum_scores_retained |-> <<MaxRetained>>],
    [id |-> 2, game_uuid |-> 102, table_uuid |-> 202,
     maximum_scores_retained |-> << >>],
    [id |-> 3, game_uuid |-> 101, table_uuid |-> 204,
     maximum_scores_retained |-> << >>] }

PlayerScores == {10, 20}

ScoreRequestUuids == 1..NumScoreRequests

\* Score submissions of game 102 signed with the game's secret: any request
\* uuid, either table or a table_uuid that names none; and one submission
\* per request uuid signed with another secret.
ScoreBody(request_uuid, params) ==
  [game_uuid |-> 102, request_uuid |-> request_uuid,
   request_timestamp |-> SecondsOf(Epoch), algo |-> "sha256", body |-> params]

ScoreBodies ==
  {ScoreBody(u, Params(t, sc)) : u \in ScoreRequestUuids, t \in {201, 202},
                                 sc \in PlayerScores}
    \cup {ScoreBody(u, Params(203, 10)) : u \in ScoreRequestUuids}

ScorePayloads ==
  {GameRequestPayload(Base64(b), Sign(b.algo, Base64(b), "K2")) : b \in ScoreBodies}
    \cup {GameRequestPayload(Base64(ScoreBody(u, Params(201, 20))),
                             Sign("sha256", Base64(ScoreBody(u, Params(201, 20))), "K1")) :
            u \in ScoreRequestUuids}

\* How the store orders rows that tie on score and creation_timestamp is
\* not fixed by the query; it is one of these.
TieBreaks == {"id_asc", "id_desc"}

RankedBefore_Ascending(a, b, tie) ==
  \/ a.player_score < b.player_score
  \/ a.player_score = b.player_score /\ a.creation_timestamp < b.creation_timestamp
  \/ /\ a.player_score = b.player_score
     /\ a.creation_timestamp = b.creation_timestamp
     /\ IF tie = "id_asc" THEN a.id < b.id ELSE a.id > b.id

\* .order((player_score.desc(), creation_timestamp.asc()))
RankedBefore(a, b, tie) ==
  \/ a.player_score > b.player_score
  \/ a.player_score = b.player_score /\ a.creation_timestamp < b.creation_timestamp
  \/ /\ a.player_score = b.player_score
     /\ a.creation_timestamp = b.creation_timestamp
     /\ IF tie = "id_asc" THEN a.id < b.id ELSE a.id > b.id

RECURSIVE Ordered(_, _)
Ordered(rows, tie) ==
  IF rows = {} THEN << >>
  ELSE LET first == CHOOSE r \in rows : \A o \in rows \ {r} : RankedBefore(r, o, tie)
       IN  <<first>> \o Ordered(rows \ {first}, tie)

Limit_Tail(seq, n) ==
  SubSeq(seq, (IF n < Len(seq) THEN Len(seq) - n ELSE 0) + 1, Len(seq))

\* .limit(n)
Limit(seq, n) == SubSeq(seq, 1, IF n < Len(seq) THEN n ELSE Len(seq))

scores_to_retain_KeepNewest(rows, table_id, maximum_scores_retained, tie) ==
  LET mine == {e \in rows : e.highscore_table_id = table_id}
      newest == {r \in mine : \A o \in mine : r.id >= o.id}
      ranked == Limit(Ordered(mine \ newest, tie), maximum_scores_retained - 1)
  IN  {r.id : r \in newest} \cup {ranked[k].id : k \in 1..Len(ranked)}

\* The subquery of remove_extra_highscore_rows: the ids of the first
\* maximum_scores_retained rows of the table.
scores_to_retain(rows, table_id, maximum_scores_retained, tie) ==
  LET ranked == Limit(Ordered({e \in rows : e.highscore_table_id = table_id}, tie),
                      maximum_scores_retained)
  IN  {ranked[k].id : k \in 1..Len(ranked)}

remove_extra_highscore_rows_NoneAsOne(rows, table_id, maximum_scores_retained, tie) ==
  [error |-> "",
   rows |-> {e \in rows : e.id \in scores_to_retain(rows, table_id, 1, tie)}]

\* remove_extra_highscore_rows: delete(highscore_table_entries)
\* .filter(id.ne_all(scores_to_retain)).  A negative LIMIT is an error of the
\* store.
remove_extra_highscore_rows(rows, table_id, maximum_scores_retained, tie) ==
  IF maximum_scores_retained = << >> THEN [error |-> "", rows |-> rows]
  ELSE IF maximum_scores_retained[1] < 0 THEN [error |-> "Unknown", rows |-> rows]
  ELSE [error |-> "",
        rows |-> {e \in rows :
                    e.id \in scores_to_retain(rows, table_id, maximum_scores_retained[1], tie)}]

\* The column creation_timestamp is not among the fields of
\* models::NewHighscoreTableEntry: the store fills it in with its own time
\* when the row is inserted.
creation_timestamp_default(now) == now

NewHighscoreTableEntry_ClientTime(id, table, params, now) ==
  [id |-> id, highscore_table_id |-> table.id,
   player_name |-> params.body.player_name,
   player_score |-> params.body.player_score,
   player_score_metadata |-> params.body.player_score_metadata,
   creation_timestamp |-> Seconds(params.request_timestamp)]

\* models::NewHighscoreTableEntry { .. } built from the verified request
\* `params`, as the store keeps it: with the next id of the serial and the
\* default of creation_timestamp.
NewHighscoreTableEntry(id, table, params, now) ==
  [id |-> id, highscore_table_id |-> table.id,
   player_name |-> params.body.player_name,
   player_score |-> params.body.player_score,
   player_score_metadata |-> params.body.player_score_metadata,
   creation_timestamp |-> creation_timestamp_default(now)]

insert_and_retain_Upsert(rows, id, table, params, now, tie) ==
  LET new_entry == NewHighscoreTableEntry(id, table, params, now)
      same == {e \in rows : /\ e.highscore_table_id = table.id
                            /\ e.player_name = params.body.player_name}
      trimmed == remove_extra_highscore_rows(rows \cup {new_entry}, table.id,
                                             table.maximum_scores_retained, tie)
  IN  IF same # {}
        THEN [error |-> "",
              rows |-> {IF e \in same
                          THEN [e EXCEPT !.player_score = params.body.player_score,
                                         !.creation_timestamp = now]
                          ELSE e : e \in rows},
              inserted |-> << >>]
      ELSE IF trimmed.error # ""
        THEN [error |-> trimmed.error, rows |-> rows, inserted |-> << >>]
        ELSE [error |-> "", rows |-> trimmed.rows, inserted |-> <<new_entry>>]

\* The transaction of post_new_highscore_table_score: insert the entry, which
\* the store stamps with its time, then trim; an error rolls both back.
insert_and_retain(rows, id, table, params, now, tie) ==
  LET new_entry == NewHighscoreTableEntry(id, table, params, now)
      trimmed == remove_extra_highscore_rows(rows \cup {new_entry}, table.id,
                                             table.maximum_scores_retained, tie)
  IN  IF trimmed.error # ""
        THEN [error |-> trimmed.error, rows |-> rows, inserted |-> << >>]
        ELSE [error |-> "", rows |-> trimmed.rows, inserted |-> <<new_entry>>]

find_table_AnyGame(table_uuid, game_uuid) ==
  {t \in highscore_tables : t.table_uuid = table_uuid}

\* highscore_tables.inner_join(games).filter(table_uuid.eq(..))
\* .filter(game_uuid.eq(..)).first()
find_table(table_uuid, game_uuid) ==
  {t \in highscore_tables : t.table_uuid = table_uuid /\ t.game_uuid = game_uuid}

ScoreInit ==
  /\ historical_requests = {}
  /\ highscore_table_entries = {}
  /\ entry_id_seq = 1
  /\ clock = Epoch
  /\ last = {}
  /\ returned = [u \in ScoreRequestUuids |-> 0]
  /\ tasks = NoTasks
  /\ submitted = {}

\* The handler of POST /scores/new on one payload, start to end.
post_new_highscore_table_score(payload, tie) ==
  LET v == full_verify_at_time(payload, historical_requests, clock)
      call == [op |-> "post_new_highscore_table_score", payload |-> payload,
               now |-> clock, result |-> v.result,
               requests_before |-> historical_requests,
               entries_before |-> highscore_table_entries,
               repeat |-> FALSE]
  IN  /\ historical_requests' = v.rows
      /\ returned' = Bump(returned, v.result)
      /\ UNCHANGED <<clock, tasks>>
      /\ IF v.result.kind # "Ok"
           THEN /\ last' = {[call EXCEPT !.result = v.result] @@
                            [response |-> ApiError_from(v.result), inserted |-> << >>]}
                /\ UNCHANGED <<highscore_table_entries, entry_id_seq, submitted>>
           ELSE
             LET params == v.result.body[1]
                 found == find_table(params.body.table_uuid, params.game_uuid)
             IN  IF found = {}
                   THEN /\ last' = {call @@ [response |-> ApiError_from_diesel("NotFound"),
                                             inserted |-> << >>]}
                        /\ UNCHANGED <<highscore_table_entries, entry_id_seq, submitted>>
                   ELSE
                     LET table == CHOOSE t \in found : TRUE
                         tx == insert_and_retain(highscore_table_entries, entry_id_seq,
                                                 table, params, clock, tie)
                     IN  /\ highscore_table_entries' = tx.rows
                         /\ entry_id_seq' = entry_id_seq + 1
                         /\ submitted' = submitted \cup {tx.inserted[k] : k \in 1..Len(tx.inserted)}
                         /\ last' = {call @@
                              [response |->
                                 IF tx.error # "" THEN ApiError_from_diesel(tx.error)
                                 ELSE [status |-> 200,
                                       message |-> "New score added successfully"],
                               inserted |-> tx.inserted]}

\* A client sends a submission when no call is being answered.  Request
\* uuids are random and only ever compared: a client that wants a fresh one
\* takes the lowest not yet recorded.
ScoreRequest ==
  /\ last = {}
  /\ \E payload \in ScorePayloads, tie \in TieBreaks :
       /\ BodyOfPayload(payload).request_uuid <= Cardinality(historical_requests) + 1
       /\ post_new_highscore_table_score(payload, tie)

\* Time passes between calls.
ScoreTick == last = {} /\ Tick

ScoreNext ==
  \/ ScoreRequest
  \/ Respond
  \/ ScoreTick

ScoreSpec == ScoreInit /\ [][ScoreNext]_vars

\* ------------------------------------------------------------- listing
\* impl From<models::HighscoreTableEntry> for ScoresResponseEntry
ScoresResponseEntry_from(entry) ==
  [player_name |-> entry.player_name, player_score |-> entry.player_score,
   player_score_metadata |-> entry.player_score_metadata,
   creation_timestamp |-> entry.creation_timestamp]

get_scores_for_table_Unfiltered(rows, highscore_table_id, limit, tie) ==
  LET ordered == Ordered(rows, tie)
      entries == IF limit = << >> THEN ordered ELSE Limit(ordered, limit[1])
  IN  [k \in 1..Len(entries) |-> ScoresResponseEntry_from(entries[k])]

\* get_scores_for_table: filter by table, order, optional limit (None is
\* << >>, Some(k) is <<k>>), load, convert.
get_scores_for_table(rows, highscore_table_id, limit, tie) ==
  LET ordered == Ordered({e \in rows : e.highscore_table_id = highscore_table_id}, tie)
      entries == IF limit = << >> THEN ordered ELSE Limit(ordered, limit[1])
  IN  [k \in 1..Len(entries) |-> ScoresResponseEntry_from(entries[k])]

\* ------------------------------------------------ overlapping submissions
\* Each task is one call of POST /scores/new on its own connection.  Its
\* steps: everything up to the INSERT inside the transaction ("trim" is
\* next), the DELETE of remove_extra_highscore_rows ("commit" is next), the
\* COMMIT ("done").  A transaction's statements see the committed rows and
\* its own writes; its writes reach the table when it commits.
IdleTx ==
  [pc |-> "idle", table |-> << >>, inserted |-> << >>, deleted |-> {},
   response |-> << >>, outcome |-> ""]

\* What a statement of a transaction sees: the rows committed when the
\* statement starts and the rows the transaction itself has inserted.
visible_rows(committed, own) == committed \cup own

load_entries_Dirty(committed, in_flight) == committed \cup in_flight

\* What the SELECT of a listing, run outside any transaction, reads: the
\* committed rows, none of the rows a transaction in flight has written.
load_entries(committed, in_flight) == committed

\* The rows written by transactions that have not committed.
InFlight ==
  {tasks[t].inserted[1] : t \in {x \in DOMAIN tasks : tasks[x].pc \in {"trim", "commit"}}}

TxInit ==
  /\ historical_requests = {}
  /\ highscore_table_entries = {}
  /\ entry_id_seq = 1
  /\ clock = Epoch
  /\ last = {}
  /\ returned = [u \in ScoreRequestUuids |-> 0]
  /\ tasks = [t \in Tasks |-> IdleTx]
  /\ submitted = {}

Rejected(response) ==
  [IdleTx EXCEPT !.pc = "done", !.response = <<response>>, !.outcome = "rejected"]

\* post_new_highscore_table_score up to and including the INSERT.
task_submit(t, payload) ==
  /\ tasks[t].pc = "idle"
  /\ last = {}
  /\ LET v == full_verify_at_time(payload, historical_requests, clock)
     IN  /\ historical_requests' = v.rows
         /\ returned' = Bump(returned, v.result)
         /\ IF v.result.kind # "Ok"
              THEN /\ tasks' = [tasks EXCEPT ![t] = Rejected(ApiError_from(v.result))]
                   /\ UNCHANGED entry_id_seq
              ELSE
                LET params == v.result.body[1]
                    found == find_table(params.body.table_uuid, params.game_uuid)
                IN  IF found = {}
                      THEN /\ tasks' = [tasks EXCEPT ![t] =
                                          Rejected(ApiError_from_diesel("NotFound"))]
                           /\ UNCHANGED entry_id_seq
                      ELSE
                        LET table == CHOOSE x \in found : TRUE
                        IN  /\ tasks' = [tasks EXCEPT ![t] =
                                 [IdleTx EXCEPT !.pc = "trim", !.table = <<table>>,
                                    !.inserted = <<NewHighscoreTableEntry(entry_id_seq, table,
                                                                          params, clock)>>]]
                            /\ entry_id_seq' = entry_id_seq + 1
  /\ UNCHANGED <<highscore_table_entries, clock, last, submitted>>

abort_transaction_KeepInsert(committed, inserted) == committed \cup {inserted}

\* db.transaction when its closure returns Err: ROLLBACK.  The table is left
\* with the committed rows; the inserted row is dropped.
abort_transaction(committed, inserted) == committed

\* remove_extra_highscore_rows inside the transaction.  The store may fail
\* the statement (store_ok = FALSE); the error leaves the closure through
\* `?` and the transaction is rolled back.
task_trim(t, tie, store_ok) ==
  /\ tasks[t].pc = "trim"
  /\ last = {}
  /\ LET tx == tasks[t]
         visible == visible_rows(highscore_table_entries, {tx.inserted[1]})
         trimmed == remove_extra_highscore_rows(visible, tx.table[1].id,
                                                tx.table[1].maximum_scores_retained, tie)
     IN  IF ~store_ok \/ trimmed.error # ""
           THEN /\ tasks' = [tasks EXCEPT ![t] =
                     [tx EXCEPT !.pc = "done", !.outcome = "aborted",
                                !.response = <<ApiError_from_diesel("Unknown")>>]]
                /\ highscore_table_entries' =
                     abort_transaction(highscore_table_entries, tx.inserted[1])
           ELSE /\ tasks' = [tasks EXCEPT ![t] =
                     [tx EXCEPT !.pc = "commit", !.deleted = visible \ trimmed.rows]]
                /\ UNCHANGED highscore_table_entries
  /\ UNCHANGED <<historical_requests, entry_id_seq, clock, last, returned, submitted>>

\* COMMIT and the response.
task_commit(t) ==
  /\ tasks[t].pc = "commit"
  /\ last = {}
  /\ LET tx == tasks[t]
     IN  /\ highscore_table_entries' =
              (highscore_table_entries \cup {tx.inserted[1]}) \ tx.deleted
         /\ submitted' = submitted \cup {tx.inserted[1]}
         /\ tasks' = [tasks EXCEPT ![t] =
              [tx EXCEPT !.pc = "done", !.outcome = "committed",
                         !.response = <<[status |-> 200,
                                         message |-> "New score added successfully"]>>]]
  /\ UNCHANGED <<historical_requests, entry_id_seq, clock, last, returned>>

\* The response is delivered; the connection serves the next call.
task_return(t) ==
  /\ tasks[t].pc = "done"
  /\ last = {}
  /\ tasks' = [tasks EXCEPT ![t] = IdleTx]
  /\ UNCHANGED <<historical_requests, highscore_table_entries, entry_id_seq, clock, last,
                 returned, submitted>>

\* The fields a listing request merges into the envelope.
GetHighscoreTableParams(table_uuid) == [table_uuid |-> table_uuid]

\* Listing requests of game 102, signed with the game's secret.
QueryPayloads ==
  {GameRequestPayload(Base64(ScoreBody(u, GetHighscoreTableParams(t))),
                      Sign("sha256", Base64(ScoreBody(u, GetHighscoreTableParams(t))), "K2")) :
     u \in ScoreRequestUuids, t \in {201, 202, 203}}

\* limit of GET /scores?<limit>: absent, or 0 .. MaxRetained + 1.
Limits == {<< >>} \cup {<<k>> : k \in 0..(MaxRetained + 1)}

get_highscore_table_scores_impl_NoLedger(payload, limit, tie) ==
  LET v == check_request(payload, clock)
      found == IF v.kind # "Ok" THEN {}
               ELSE find_table(v.body[1].body.table_uuid, v.body[1].game_uuid)
      listed == v.kind = "Ok" /\ found # {}
      table_id == IF listed THEN (CHOOSE x \in found : TRUE).id ELSE 0
  IN  /\ returned' = Bump(returned, v)
      /\ UNCHANGED <<historical_requests, highscore_table_entries, entry_id_seq, clock,
                     tasks, submitted>>
      /\ last' = {[op |-> "get_highscore_table_scores", payload |-> payload, now |-> clock,
                   result |-> v, requests_before |-> historical_requests,
                   entries_before |-> highscore_table_entries, repeat |-> FALSE,
                   inserted |-> << >>, limit |-> limit, in_flight |-> {}, pending |-> {},
                   response |-> IF v.kind # "Ok" THEN ApiError_from(v)
                                ELSE IF found = {} THEN ApiError_from_diesel("NotFound")
                                ELSE [status |-> 200, message |-> ""],
                   table_id |-> IF listed THEN <<table_id>> ELSE << >>,
                   loaded |-> {e \in highscore_table_entries :
                                 listed /\ e.highscore_table_id = table_id},
                   scores |-> IF listed
                                THEN get_scores_for_table(highscore_table_entries, table_id,
                                                          limit, tie)
                                ELSE << >>]}

\* get_highscore_table_scores_impl: verify, find the table, list it.
get_highscore_table_scores_impl(payload, limit, tie) ==
  LET v == full_verify_at_time(payload, historical_requests, clock)
      call == [op |-> "get_highscore_table_scores", payload |-> payload, now |-> clock,
               result |-> v.result, requests_before |-> historical_requests,
               entries_before |-> highscore_table_entries, repeat |-> FALSE,
               inserted |-> << >>, limit |-> limit, in_flight |-> InFlight,
               pending |-> UNION {tasks[t].deleted : t \in DOMAIN tasks}]
  IN  /\ historical_requests' = v.rows
      /\ returned' = Bump(returned, v.result)
      /\ UNCHANGED <<highscore_table_entries, entry_id_seq, clock, tasks, submitted>>
      /\ IF v.result.kind # "Ok"
           THEN last' = {call @@ [response |-> ApiError_from(v.result),
                                  table_id |-> << >>, loaded |-> {}, scores |-> << >>]}
           ELSE
             LET params == v.result.body[1]
                 found == find_table(params.body.table_uuid, params.game_uuid)
             IN  IF found = {}
                   THEN last' = {call @@ [response |-> ApiError_from_diesel("NotFound"),
                                          table_id |-> << >>, loaded |-> {}, scores |-> << >>]}
                   ELSE
                     LET table == CHOOSE x \in found : TRUE
                     IN  last' = {call @@
                           [response |-> [status |-> 200, message |-> ""],
                            table_id |-> <<table.id>>,
                            loaded |-> {e \in load_entries(highscore_table_entries, InFlight) :
                                          e.highscore_table_id = table.id},
                            scores |-> get_scores_for_table(
                                         load_entries(highscore_table_entries, InFlight),
                                         table.id, limit, tie)]}

\* Listings sent while submissions are in flight ask for the whole table.
TxQuery ==
  /\ last = {}
  /\ \E payload \in QueryPayloads, tie \in TieBreaks :
       /\ BodyOfPayload(payload).request_uuid = Cardinality(historical_requests) + 1
       /\ get_highscore_table_scores_impl(payload, << >>, tie)

\* Submissions that overlap: valid ones into either table, each with a
\* request uuid not used before, and one that names no table.
TxPayloads ==
  {GameRequestPayload(Base64(b), Sign(b.algo, Base64(b), "K2")) :
     b \in {ScoreBody(u, Params(201, sc)) : u \in ScoreRequestUuids, sc \in PlayerScores}
            \cup {ScoreBody(u, Params(t, 10)) : u \in ScoreRequestUuids, t \in {202, 203}}}

\* The pool hands a call the first connection that is free.
TxSubmit ==
  \E t \in Tasks, payload \in TxPayloads :
    /\ \A o \in Tasks : o < t => tasks[o].pc # "idle"
    /\ BodyOfPayload(payload).request_uuid = Cardinality(historical_requests) + 1
    /\ task_submit(t, payload)

TxNext ==
  \/ TxSubmit
  \/ \E t \in Tasks, tie \in TieBreaks, store_ok \in BOOLEAN : task_trim(t, tie, store_ok)
  \/ \E t \in Tasks : task_commit(t)
  \/ \E t \in Tasks : task_return(t)
  \/ TxQuery
  \/ Respond

TxSpec == TxInit /\ [][TxNext]_vars

\* --------------------------------------------- submissions and listings
\* Calls run one after another: score submissions and listings of game 102,
\* each with a request uuid not used before.
ListRequestUuids == 1..NumListRequests

ListSubmitPayloads ==
  {GameRequestPayload(Base64(b), Sign(b.algo, Base64(b), "K2")) :
     b \in {ScoreBody(u, Params(201, sc)) : u \in ListRequestUuids, sc \in PlayerScores}
            \cup {ScoreBody(u, Params(202, 30)) : u \in ListRequestUuids}}

ListQueryPayloads ==
  {GameRequestPayload(Base64(ScoreBody(u, GetHighscoreTableParams(t))),
                      Sign("sha256", Base64(ScoreBody(u, GetHighscoreTableParams(t))), "K2")) :
     u \in ListRequestUuids, t \in {201, 202}}

ListInit ==
  /\ historical_requests = {}
  /\ highscore_table_entries = {}
  /\ entry_id_seq = 1
  /\ clock = Epoch
  /\ last = {}
  /\ returned = [u \in ListRequestUuids |-> 0]
  /\ tasks = NoTasks
  /\ submitted = {}

ListSubmit ==
  /\ last = {}
  /\ \E payload \in ListSubmitPayloads, tie \in TieBreaks :
       /\ BodyOfPayload(payload).request_uuid = Cardinality(historical_requests) + 1
       /\ post_new_highscore_table_score(payload, tie)

ListQuery ==
  /\ last = {}
  /\ \E payload \in ListQueryPayloads, limit \in Limits, tie \in TieBreaks :
       /\ BodyOfPayload(payload).request_uuid = Cardinality(historical_requests) + 1
       /\ get_highscore_table_scores_impl(payload, limit, tie)

ListNext ==
  \/ ListSubmit
  \/ ListQuery
  \/ Respond
  \/ ScoreTick

ListSpec == ListInit /\ [][ListNext]_vars

\* ------------------------------------------------- two games, their tables
\* Calls of games 101 and 102 run one after another, each signed with the
\* secret of the game it names: submissions into and listings of a table of
\* the game itself (201 for game 102, 204 for game 101) and of the other
\* game.
OwnerBody(game_uuid, request_uuid, params) ==
  [ScoreBody(request_uuid, params) EXCEPT !.game_uuid = game_uuid]

SignedByGame(body) ==
  {GameRequestPayload(Base64(body), Sign(body.algo, Base64(body), g.game_secret_key)) :
     g \in find_game(body.game_uuid)}

OwnerSubmitPayloads ==
  UNION {SignedByGame(OwnerBody(g, u, Params(t, 10))) :
           g \in {101, 102}, u \in ScoreRequestUuids, t \in {201, 204}}

OwnerQueryPayloads ==
  UNION {SignedByGame(OwnerBody(g, u, GetHighscoreTableParams(t))) :
           g \in {101, 102}, u \in ScoreRequestUuids, t \in {201, 204}}

OwnerSubmit ==
  /\ last = {}
  /\ \E payload \in OwnerSubmitPayloads, tie \in TieBreaks :
       /\ BodyOfPayload(payload).request_uuid = Cardinality(historical_requests) + 1
       /\ post_new_highscore_table_score(payload, tie)

OwnerQuery ==
  /\ last = {}
  /\ \E payload \in OwnerQueryPayloads, tie \in TieBreaks :
       /\ BodyOfPayload(payload).request_uuid = Cardinality(historical_requests) + 1
       /\ get_highscore_table_scores_impl(payload, << >>, tie)

OwnerNext ==
  \/ OwnerSubmit
  \/ OwnerQuery
  \/ Respond
  \/ ScoreTick

OwnerSpec == ScoreInit /\ [][OwnerNext]_vars

\* ------------------------------------------- GameRequestPayload::from_str
\* A raw request text is a sequence of characters; "a" and "b" stand for the
\* characters other than '.'.
Chars == {"a", "b", "."}

RECURSIVE TextsOfLen(_)
TextsOfLen(n) ==
  IF n = 0 THEN {<< >>}
  ELSE {<<ch>> \o t : ch \in Chars, t \in TextsOfLen(n - 1)}

Texts == UNION {TextsOfLen(n) : n \in 0..MaxTextLen}

split_once_Last(s, ch) ==
  LET at == {i \in 1..Len(s) : s[i] = ch}
  IN  IF at = {} THEN << >>
      ELSE LET i == CHOOSE k \in at : \A o \in at : k >= o
           IN  <<[before |-> SubSeq(s, 1, i - 1), after |-> SubSeq(s, i + 1, Len(s))]>>

\* str::split_once: None (<< >>) when ch does not occur, else the parts
\* before and after its first occurrence.
split_once(s, ch) ==
  LET at == {i \in 1..Len(s) : s[i] = ch}
  IN  IF at = {} THEN << >>
      ELSE LET i == CHOOSE k \in at : \A o \in at : k <= o
           IN  <<[before |-> SubSeq(s, 1, i - 1), after |-> SubSeq(s, i + 1, Len(s))]>>

\* impl FromStr for GameRequestPayload
from_str(s) ==
  LET parts == split_once(s, ".")
  IN  IF parts = << >> THEN [ok |-> FALSE, payload |-> << >>]
      ELSE [ok |-> TRUE,
            payload |-> <<GameRequestPayload(parts[1].before, parts[1].after)>>]

\* A raw text arrives and is parsed.
Parse ==
  /\ last = {}
  /\ \E text \in Texts : last' = {[op |-> "from_str", text |-> text, parsed |-> from_str(text)]}
  /\ UNCHANGED <<historical_requests, highscore_table_entries, entry_id_seq, clock,
                 returned, tasks, submitted>>

ParseNext ==
  \/ Parse
  \/ Respond

ParseSpec == Init /\ [][ParseNext]_vars

\* --------------------------------------------------------- store failures
\* The statements a score submission sends to the store, in the order of
\* the code.  The store may fail one of them (fault); "none" is a call the
\* store serves without failure.
Statements ==
  <<"find_game", "request_exists", "insert_request", "find_table", "insert_entry",
    "remove_extra">>

Faults == {"none"} \cup {Statements[i] : i \in 1..Len(Statements)}

\* The diesel error of a failed statement: none of NotFound, UniqueViolation,
\* ForeignKeyViolation.
StoreFailure == "Unknown"

exists_checked_Swallow(rows, request_uuid, failed) ==
  [error |-> "", exists |-> ~failed /\ request_exists(rows, request_uuid)]

\* diesel::select(exists(subquery)).get_result::<bool>(db).await?
exists_checked(rows, request_uuid, failed) ==
  IF failed THEN [error |-> StoreFailure, exists |-> FALSE]
  ELSE [error |-> "", exists |-> request_exists(rows, request_uuid)]

full_verify_with_faults_Deferred(payload, db, now, fault) ==
  LET v == full_verify_at_time(payload, db, now)
  IN  [result |-> v.result, rows |-> db,
       log |-> IF v.result.kind = "Ok"
                 THEN <<"find_game", "request_exists", "insert_request">>
                 ELSE <<"find_game">>]

\* full_verify_at_time when the store may fail a statement: every query is
\* followed by `?`.  log is the statements sent.
full_verify_with_faults(payload, db, now, fault) ==
  LET d == deserialize(payload)
  IN  IF d.kind # "Ok" THEN [result |-> d, rows |-> db, log |-> << >>]
      ELSE IF fault = "find_game"
        THEN [result |-> Err("DieselError", StoreFailure), rows |-> db,
              log |-> <<"find_game">>]
      ELSE
        LET c == check_request(payload, now)
        IN  IF c.kind # "Ok" THEN [result |-> c, rows |-> db, log |-> <<"find_game">>]
            ELSE
              LET e == exists_checked(db, c.body[1].request_uuid, fault = "request_exists")
              IN  IF e.error # ""
                    THEN [result |-> Err("DieselError", e.error), rows |-> db,
                          log |-> <<"find_game", "request_exists">>]
                  ELSE IF e.exists
                    THEN [result |-> Err("RequestAlreadySeen", ""), rows |-> db,
                          log |-> <<"find_game", "request_exists">>]
                  ELSE IF fault = "insert_request"
                    THEN [result |-> Err("DieselError", StoreFailure), rows |-> db,
                          log |-> <<"find_game", "request_exists", "insert_request">>]
                  ELSE commit_request(db, c.body[1], now) @@
                         [log |-> <<"find_game", "request_exists", "insert_request">>]

\* The rest of post_new_highscore_table_score after a successful
\* verification: table lookup, then insert and trim in one transaction.
submit_with_faults(body, rows, id, now, tie, fault) ==
  LET found == find_table(body.body.table_uuid, body.game_uuid)
  IN  IF fault = "find_table"
        THEN [response |-> ApiError_from_diesel(StoreFailure), rows |-> rows,
              inserted |-> << >>, log |-> <<"find_table">>, ids |-> 0]
      ELSE IF found = {}
        THEN [response |-> ApiError_from_diesel("NotFound"), rows |-> rows,
              inserted |-> << >>, log |-> <<"find_table">>, ids |-> 0]
      ELSE
        LET table == CHOOSE t \in found : TRUE
            new_entry == NewHighscoreTableEntry(id, table, body, now)
            trims == table.maximum_scores_retained # << >>
            tx == insert_and_retain(rows, id, table, body, now, tie)
        IN  IF fault = "insert_entry"
              THEN [response |-> ApiError_from_diesel(StoreFailure), rows |-> rows,
                    inserted |-> << >>, log |-> <<"find_table", "insert_entry">>, ids |-> 0]
            ELSE IF trims /\ (fault = "remove_extra" \/ tx.error # "")
              THEN [response |-> ApiError_from_diesel(StoreFailure),
                    rows |-> abort_transaction(rows, new_entry), inserted |-> << >>,
                    log |-> <<"find_table", "insert_entry", "remove_extra">>, ids |-> 1]
            ELSE [response |-> [status |-> 200, message |-> "New score added successfully"],
                  rows |-> tx.rows, inserted |-> tx.inserted,
                  log |-> IF trims THEN <<"find_table", "insert_entry", "remove_extra">>
                          ELSE <<"find_table", "insert_entry">>,
                  ids |-> 1]

\* The handler of POST /scores/new on one payload when the store may fail
\* the statement `fault`.
post_new_highscore_table_score_with_faults(payload, tie, fault) ==
  LET v == full_verify_with_faults(payload, historical_requests, clock, fault)
      call == [op |-> "post_new_highscore_table_score", payload |-> payload,
               now |-> clock, result |-> v.result,
               requests_before |-> historical_requests,
               entries_before |-> highscore_table_entries,
               repeat |-> FALSE, fault |-> fault]
  IN  /\ historical_requests' = v.rows
      /\ returned' = Bump(returned, v.result)
      /\ UNCHANGED <<clock, tasks>>
      /\ IF v.result.kind # "Ok"
           THEN /\ last' = {call @@ [response |-> ApiError_from(v.result),
                                     inserted |-> << >>, log |-> v.log]}
                /\ UNCHANGED <<highscore_table_entries, entry_id_seq, submitted>>
           ELSE
             LET r == submit_with_faults(v.result.body[1], highscore_table_entries,
                                         entry_id_seq, clock, tie, fault)
             IN  /\ highscore_table_entries' = r.rows
                 /\ entry_id_seq' = entry_id_seq + r.ids
                 /\ submitted' = submitted \cup {r.inserted[k] : k \in 1..Len(r.inserted)}
                 /\ last' = {call @@ [response |-> r.response, inserted |-> r.inserted,
                                      log |-> v.log \o r.log]}

\* The submissions of game 102 sent while the store may fail: into its own
\* tables, with a table_uuid that names none, and into the table of game
\* 101.
FaultPayloads ==
  TxPayloads \cup
  {GameRequestPayload(Base64(b), Sign(b.algo, Base64(b), "K2")) :
     b \in {ScoreBody(u, Params(204, 10)) : u \in ScoreRequestUuids}}

FaultyRequest ==
  /\ last = {}
  /\ \E payload \in FaultPayloads, tie \in TieBreaks, fault \in Faults :
       /\ BodyOfPayload(payload).request_uuid <= Cardinality(historical_requests) + 1
       /\ post_new_highscore_table_score_with_faults(payload, tie, fault)

FaultNext ==
  \/ FaultyRequest
  \/ Respond

FaultSpec == ScoreInit /\ [][FaultNext]_vars

\* ------------------------------------------------- client-chosen timestamps
\* Submissions of game 102 into table 201 that tie on score and carry any
\* request_timestamp the client likes, signed with the game's secret.
StampBody(request_uuid, request_timestamp) ==
  [ScoreBody(request_uuid, Params(201, 10)) EXCEPT !.request_timestamp = request_timestamp]

SignedStamp(body) == GameRequestPayload(Base64(body), Sign(body.algo, Base64(body), "K2"))

StampPayloads ==
  {SignedStamp(StampBody(u, ts)) : u \in ScoreRequestUuids, ts \in Timestamps}

StampSubmit ==
  /\ last = {}
  /\ \E payload \in StampPayloads, tie \in TieBreaks :
       /\ BodyOfPayload(payload).request_uuid = Cardinality(historical_requests) + 1
       /\ post_new_highscore_table_score(payload, tie)

StampNext ==
  \/ StampSubmit
  \/ Respond
  \/ ScoreTick

StampSpec == ScoreInit /\ [][StampNext]_vars

\* ---------------------------------------------------- retention limits
\* api.rs: pub const MAX_HIGHSCORES_RETAINED_FOR_NON_ADMIN: i32 = 100
MAX_HIGHSCORES_RETAINED_FOR_NON_ADMIN == 100

normalize_max_scores_NoneKept(maximum_scores_retained, is_admin) ==
  IF is_admin THEN maximum_scores_retained
  ELSE IF maximum_scores_retained = << >> THEN << >>
  ELSE IF ~(maximum_scores_retained[1] \in 0..MAX_HIGHSCORES_RETAINED_FOR_NON_ADMIN)
    THEN <<MAX_HIGHSCORES_RETAINED_FOR_NON_ADMIN>>
  ELSE maximum_scores_retained

\* normalize_max_scores(maximum_scores_retained, requesting_user): None is
\* << >>, Some(n) is <<n>>.
normalize_max_scores(maximum_scores_retained, is_admin) ==
  IF is_admin THEN maximum_scores_retained
  ELSE IF maximum_scores_retained = << >>
    THEN <<MAX_HIGHSCORES_RETAINED_FOR_NON_ADMIN>>
  ELSE IF ~(maximum_scores_retained[1] \in 0..MAX_HIGHSCORES_RETAINED_FOR_NON_ADMIN)
    THEN <<MAX_HIGHSCORES_RETAINED_FOR_NON_ADMIN>>
  ELSE maximum_scores_retained

\* The limits a developer asks for: none, a negative one, both ends of the
\* permitted range and their neighbours, and the small ones a few entries
\* can exceed.
RequestedLimits ==
  {<< >>} \cup
  {<<n>> : n \in (-1..MaxRetained) \cup
                 ((MAX_HIGHSCORES_RETAINED_FOR_NON_ADMIN - 1)..
                    (MAX_HIGHSCORES_RETAINED_FOR_NON_ADMIN + 1))}

\* create_highscore_table computes the limit of the new table.
Normalize ==
  /\ last = {}
  /\ \E requested \in RequestedLimits, is_admin \in BOOLEAN :
       last' = {[op |-> "normalize_max_scores", requested |-> requested,
                 is_admin |-> is_admin,
                 result |-> normalize_max_scores(requested, is_admin)]}
  /\ UNCHANGED <<historical_requests, highscore_table_entries, entry_id_seq, clock,
                 returned, tasks, submitted>>

\* Submissions into table 202, which retains all.
NormPayloads ==
  {GameRequestPayload(Base64(b), Sign(b.algo, Base64(b), "K2")) :
     b \in {ScoreBody(u, Params(202, sc)) : u \in ScoreRequestUuids, sc \in PlayerScores}}

NormSubmit ==
  /\ last = {}
  /\ \E payload \in NormPayloads, tie \in TieBreaks :
       /\ BodyOfPayload(payload).request_uuid = Cardinality(historical_requests) + 1
       /\ post_new_highscore_table_score(payload, tie)

NormNext ==
  \/ Normalize
  \/ NormSubmit
  \/ Respond

NormSpec == ScoreInit /\ [][NormNext]_vars

\* ------------------------------------------------------ check_permission
ApiError_forbidden == [status |-> 403, message |-> "Forbidden"]

ApiError_not_found == [status |-> 404, message |-> "Not Found"]

DeveloperUuids == 1..NumDevelopers

\* The requesting user of a developer call: the subject of its token and
\* whether it is an administrator.
DeveloperUsers == [user_uuid : DeveloperUuids, is_admin : BOOLEAN]

\* What the handlers look up before the permission check: a game or a
\* highscore table tagged with the uuid of the developer that owns it
\* (the tuple (T, Uuid)), or nothing (None is << >>).
OwnedItems ==
  GameUuids \cup {t.table_uuid : t \in highscore_tables} \cup {203}

OwnedObjects ==
  {<< >>} \cup {<<[item |-> i, developer_uuid |-> d]>> : i \in OwnedItems, d \in DeveloperUuids}

get_developer_uuid(object) == object.developer_uuid

check_permission_AdminOnlyOwn(object, requesting_user) ==
  IF object # << >> /\ requesting_user.user_uuid = get_developer_uuid(object[1])
    THEN [kind |-> "Ok", object |-> object, error |-> << >>]
  ELSE IF requesting_user.is_admin
    THEN [kind |-> "Err", object |-> << >>, error |-> <<ApiError_not_found>>]
  ELSE [kind |-> "Err", object |-> << >>, error |-> <<ApiError_forbidden>>]

\* DeveloperOwned::check_permission(object, requesting_user)
check_permission(object, requesting_user) ==
  IF requesting_user.is_admin
    THEN IF object # << >>
           THEN [kind |-> "Ok", object |-> object, error |-> << >>]
           ELSE [kind |-> "Err", object |-> << >>, error |-> <<ApiError_not_found>>]
  ELSE IF object # << >> /\ requesting_user.user_uuid = get_developer_uuid(object[1])
    THEN [kind |-> "Ok", object |-> object, error |-> << >>]
  ELSE [kind |-> "Err", object |-> << >>, error |-> <<ApiError_forbidden>>]

\* A developer call checks the permission of its requesting user on what
\* it looked up.
CheckPermission ==
  /\ last = {}
  /\ \E object \in OwnedObjects, requesting_user \in DeveloperUsers :
       last' = {[op |-> "check_permission", object |-> object,
                 requesting_user |-> requesting_user,
                 result |-> check_permission(object, requesting_user)]}
  /\ UNCHANGED <<historical_requests, highscore_table_entries, entry_id_seq, clock,
                 returned, tasks, submitted>>

PermNext ==
  \/ CheckPermission
  \/ Respond

PermSpec == Init /\ [][PermNext]_vars

\* ------------------------------------------------------- ledger cleanup
\* setup.rs: Utc::now() - Duration::days(7)
CLEANUP_AGE == Days(7)

cleanup_historical_requests_OneDay(rows, now) ==
  {r \in rows : ~(r.timestamp < now - Days(1))}

\* The DELETE of cleanup_historical_requests: the rows stamped before
\* now - 7 days go, the others stay.
cleanup_historical_requests(rows, now) ==
  {r \in rows : ~(r.timestamp < now - CLEANUP_AGE)}

\* Envelopes of game 102 with request uuid 1, signed with the game's
\* secret, whose request_timestamp is any whole day from Epoch on.
CleanupBody(day) ==
  [ScoreBody(1, Params(201, 10)) EXCEPT !.request_timestamp = SecondsOf(Epoch + Days(day))]

CleanupPayloads == {SignedStamp(CleanupBody(day)) : day \in 0..MaxDays}

\* Here `returned` counts, per envelope, the calls that returned its body.
CleanupInit ==
  /\ historical_requests = {}
  /\ highscore_table_entries = {}
  /\ entry_id_seq = 1
  /\ clock = Epoch
  /\ last = {}
  /\ returned = [p \in CleanupPayloads |-> 0]
  /\ tasks = NoTasks
  /\ submitted = {}

\* GameRequestBody::full_verify on one envelope, start to end.
CleanupRequest ==
  /\ last = {}
  /\ \E payload \in CleanupPayloads :
       LET r == full_verify_at_time(payload, historical_requests, clock)
       IN  /\ historical_requests' = r.rows
           /\ returned' = IF r.result.kind # "Ok" THEN returned
                           ELSE [returned EXCEPT ![payload] = IF @ = 0 THEN 1 ELSE 2]
           /\ last' = {[op |-> "full_verify", payload |-> payload, now |-> clock,
                        result |-> r.result, requests_before |-> historical_requests,
                        repeat |-> returned[payload] > 0]}
  /\ UNCHANGED <<highscore_table_entries, entry_id_seq, clock, tasks, submitted>>

\* The cleanup job runs, at any time between two calls.
Cleanup ==
  /\ last = {}
  /\ historical_requests' = cleanup_historical_requests(historical_requests, clock)
  /\ historical_requests' # historical_requests
  /\ UNCHANGED <<highscore_table_entries, entry_id_seq, clock, last, returned, tasks,
                 submitted>>

\* A day passes.
DayTick ==
  /\ last = {}
  /\ clock < Epoch + Days(MaxDays)
  /\ clock' = clock + Days(1)
  /\ UNCHANGED <<historical_requests, highscore_table_entries, entry_id_seq, last,
                 returned, tasks, submitted>>

CleanupNext ==
  \/ CleanupRequest
  \/ Cleanup
  \/ DayTick
  \/ Respond

CleanupSpec == CleanupInit /\ [][CleanupNext]_vars

\* ------------------------------------------- reads and writes re-sent
\* Listings and submissions of game 102 sent one after another; an
\* envelope may carry a request uuid that was used before, by a listing or
\* by a submission.
ReadQuery ==
  /\ last = {}
  /\ \E payload \in QueryPayloads, tie \in TieBreaks :
       /\ BodyOfPayload(payload).request_uuid <= Cardinality(historical_requests) + 1
       /\ get_highscore_table_scores_impl(payload, << >>, tie)

ReadSubmit ==
  /\ last = {}
  /\ \E payload \in TxPayloads, tie \in TieBreaks :
       /\ BodyOfPayload(payload).request_uuid <= Cardinality(historical_requests) + 1
       /\ post_new_highscore_table_score(payload, tie)

ReadNext ==
  \/ ReadQuery
  \/ ReadSubmit
  \/ Respond

ReadSpec == ScoreInit /\ [][ReadNext]_vars

\* ------------------------------------------- security levels as integers
\* enum SecurityLevel { Low, High } with derive(PartialOrd, Ord): the
\* variants compare in the order of their declaration.
SecurityLevels == <<"Low", "High">>

SecurityLevel_lt(a, b) ==
  \E i, j \in 1..Len(SecurityLevels) :
    SecurityLevels[i] = a /\ SecurityLevels[j] = b /\ i < j

try_from_AnyPositive(level) ==
  IF level = 0 THEN [kind |-> "Ok", level |-> <<"Low">>]
  ELSE IF level > 0 THEN [kind |-> "Ok", level |-> <<"High">>]
  ELSE [kind |-> "TryFromSecurityLevelError", level |-> << >>]

\* impl TryFrom<i32> for SecurityLevel
try_from(level) ==
  IF level = 0 THEN [kind |-> "Ok", level |-> <<"Low">>]
  ELSE IF level = 10 THEN [kind |-> "Ok", level |-> <<"High">>]
  ELSE [kind |-> "TryFromSecurityLevelError", level |-> << >>]

\* The integers tried: those around the two codes, and both ends of i32.
LevelCodes ==
  (-MaxLevelCode..MaxLevelCode) \cup {-((2^30 - 1) * 2 + 1) - 1, (2^30 - 1) * 2 + 1}

\* A stored integer is decoded and the level of a request's algorithm is
\* compared with the level a game demands.
Convert ==
  /\ last = {}
  /\ \E code \in LevelCodes, algo \in RequestAlgorithm, demanded \in {"Low", "High"} :
       LET level == security_level(into_hasher(algo))
       IN  last' = {[op |-> "try_from", code |-> code, decoded |-> try_from(code),
                     level |-> level, demanded |-> demanded,
                     encoded |-> i32_from(level),
                     stored |-> i32_from(demanded),
                     round_trip |-> try_from(i32_from(level)),
                     too_low |-> LevelTooLow(into_hasher(algo), i32_from(demanded))]}
  /\ UNCHANGED <<historical_requests, highscore_table_entries, entry_id_seq, clock,
                 returned, tasks, submitted>>

LevelNext ==
  \/ Convert
  \/ Respond

LevelSpec == Init /\ [][LevelNext]_vars

\* ================================================================ claims
\* What the claims say of a call c, stated from the envelope itself.
BodyOf(c) == c.payload.payload_base64.content

Decodes(c) ==
  /\ c.payload.payload_base64.form = "ok"
  /\ BodyOf(c).algo \in {"sha1", "sha256"}

GameOf(c) == {g \in games : g.game_uuid = BodyOf(c).game_uuid}

LevelOf(algo) == IF algo = "sha1" THEN 0 ELSE 10

MeetsLevel(c) == \A g \in GameOf(c) : LevelOf(BodyOf(c).algo) >= g.security_level

DigestName(algo) == IF algo = "sha1" THEN "SHA-1" ELSE "SHA-256"

\* The signature part is the base64 of Hash(payload_base64 + "." + secret_key).
CorrectlySigned(c) ==
  \A g \in GameOf(c) :
    /\ c.payload.signature_base64.form = "ok"
    /\ c.payload.signature_base64.content =
         [alg |-> DigestName(BodyOf(c).algo),
          preimage |-> <<c.payload.payload_base64, g.game_secret_key>>]

WithinSkew(c) ==
  /\ c.now - Seconds(BodyOf(c).request_timestamp) <= Days(2)
  /\ Seconds(BodyOf(c).request_timestamp) - c.now <= Days(2)

SeenBefore(c) ==
  \E r \in c.requests_before : r.request_uuid = BodyOf(c).request_uuid

\* The envelope of c passes every check that does not read the ledger.
ValidEnvelope(c) ==
  /\ Decodes(c)
  /\ GameOf(c) # {}
  /\ MeetsLevel(c)
  /\ CorrectlySigned(c)
  /\ WithinSkew(c)

\* C1: a request_uuid that is in historical_requests is never accepted
\* again: a call that carries it fails, and no request_uuid has more than one
\* call that returned a body.
C1_NeverAcceptedAgain ==
  /\ \A u \in RequestUuids : returned[u] <= 1
  /\ \A c \in last : (Decodes(c) /\ SeenBefore(c)) => c.result.kind # "Ok"

C1_Witness ==
  \E c \in last :
    /\ ValidEnvelope(c)
    /\ SeenBefore(c)
    /\ c.result.kind # "Ok"
    /\ returned[BodyOf(c).request_uuid] = 1

\* C4: a valid envelope with a fresh request_uuid is accepted by the first
\* call, and the identical envelope sent again (still within the skew window)
\* fails with RequestAlreadySeen.
C4_OnceThenReplay ==
  \A c \in last :
    /\ (ValidEnvelope(c) /\ ~SeenBefore(c)) =>
         (c.result.kind = "Ok" /\ c.result.body = <<BodyOf(c)>>)
    /\ (c.repeat /\ WithinSkew(c)) => c.result.kind = "RequestAlreadySeen"

C4_Witness ==
  \E c \in last : c.repeat /\ WithinSkew(c) /\ c.result.kind = "RequestAlreadySeen"

\* C5: a call returns a body only if the level of its algorithm (sha1 = 0,
\* sha256 = 10) is at least the game's minimum; a game with minimum 10
\* answers a correctly signed sha1 envelope with SecurityLevelNotAttained.
C5_SecurityLevelGate ==
  \A c \in last :
    /\ c.result.kind = "Ok" => (GameOf(c) # {} /\ MeetsLevel(c))
    /\ (/\ Decodes(c)
        /\ BodyOf(c).algo = "sha1"
        /\ \E g \in GameOf(c) : g.security_level = 10)
         => c.result.kind = "SecurityLevelNotAttained"

C5_Witness ==
  \E c \in last :
    /\ Decodes(c)
    /\ BodyOf(c).algo = "sha1"
    /\ \E g \in GameOf(c) : g.security_level = 10
    /\ CorrectlySigned(c)
    /\ c.result.kind = "SecurityLevelNotAttained"

\* The error of the earliest failing step, in the order of the specification.
FirstFailure(c) ==
  IF ~Decodes(c) THEN "DeserializeError"
  ELSE IF GameOf(c) = {} THEN "NoSuchGame"
  ELSE IF ~MeetsLevel(c) THEN "SecurityLevelNotAttained"
  ELSE IF ~CorrectlySigned(c) THEN "VerificationError"
  ELSE IF ~WithinSkew(c) THEN "BadRequestTimestamp"
  ELSE IF SeenBefore(c) THEN "RequestAlreadySeen"
  ELSE "Ok"

\* C6: the result of a call is the error of the earliest failing step, in the
\* order deserialize, game lookup, security level, signature, timestamp,
\* existence check.
C6_FirstFailureDecides == \A c \in last : c.result.kind = FirstFailure(c)

C6_Witness ==
  \E c \in last :
    /\ Decodes(c)
    /\ GameOf(c) # {}
    /\ ~MeetsLevel(c)
    /\ ~CorrectlySigned(c)
    /\ ~WithinSkew(c)
    /\ SeenBefore(c)
    /\ c.result.kind = "SecurityLevelNotAttained"

\* C7: a call returns a body only if the signature is the hash, by the
\* envelope's algorithm, of payload_base64 + "." + the secret of the
\* envelope's game; any other signature that gets as far as the signature check
\* is answered VerificationError and leaves historical_requests as it was.
C7_SignatureRequired ==
  \A c \in last :
    /\ c.result.kind = "Ok" => (GameOf(c) # {} /\ CorrectlySigned(c))
    /\ (Decodes(c) /\ GameOf(c) # {} /\ MeetsLevel(c) /\ ~CorrectlySigned(c)) =>
         (c.result.kind = "VerificationError" /\ historical_requests = c.requests_before)

C7_Witness ==
  \E c \in last :
    /\ Decodes(c)
    /\ MeetsLevel(c)
    /\ WithinSkew(c)
    /\ ~SeenBefore(c)
    /\ \E g \in games :
         /\ g.game_uuid # BodyOf(c).game_uuid
         /\ c.payload.signature_base64 =
              Sign(BodyOf(c).algo, c.payload.payload_base64, g.game_secret_key)
    /\ GameOf(c) # {}
    /\ c.result.kind = "VerificationError"

\* C8: a call that passes the signature check is answered BadRequestTimestamp
\* exactly when now and request_timestamp are more than 2 days apart.
C8_SkewWindowInclusive ==
  \A c \in last :
    (Decodes(c) /\ GameOf(c) # {} /\ MeetsLevel(c) /\ CorrectlySigned(c)) =>
      (c.result.kind = "BadRequestTimestamp" <=> ~WithinSkew(c))

C8_Witness ==
  \E c \in last :
    /\ c.now - Seconds(BodyOf(c).request_timestamp) = Days(2)
    /\ c.result.kind = "Ok"

\* C9: a call that returns a body adds exactly one row, with its own
\* request_uuid, to historical_requests; a call that returns an error leaves
\* historical_requests as it was.
C9_LedgerFrame ==
  \A c \in last :
    IF c.result.kind = "Ok"
      THEN /\ c.requests_before \subseteq historical_requests
           /\ Cardinality(historical_requests) = Cardinality(c.requests_before) + 1
           /\ \A r \in historical_requests \ c.requests_before :
                r.request_uuid = BodyOf(c).request_uuid
      ELSE historical_requests = c.requests_before

C9_Witness ==
  \E c \in last :
    /\ c.result.kind = "Ok"
    /\ c.requests_before # {}
    /\ Cardinality(historical_requests) = Cardinality(c.requests_before) + 1

\* What the claims say of a concurrent call.
TaskBody(t) == tasks[t].payload[1].payload_base64.content

Finished(t) == tasks[t].pc = "done"

\* The call of task t got as far as the existence query.
ReachedLedger(t) == Finished(t) /\ tasks[t].step \in {"exists", "insert"}

Replayed(kind, detail) ==
  \/ kind = "RequestAlreadySeen"
  \/ kind = "DieselError" /\ detail = "UniqueViolation"

\* C2: of the concurrent calls that carry one request_uuid and reach the
\* ledger, exactly one returns the body; every other one fails with
\* RequestAlreadySeen or with the insert's uniqueness conflict.
C2_ExactlyOneWins ==
  \A u \in RequestUuids :
    LET done == {t \in Tasks : ReachedLedger(t) /\ TaskBody(t).request_uuid = u}
        won == {t \in done : tasks[t].result[1].kind = "Ok"}
    IN  done # {} =>
          /\ Cardinality(won) = 1
          /\ \A t \in done \ won :
               Replayed(tasks[t].result[1].kind, tasks[t].result[1].detail)

C2_Witness ==
  \E t1, t2 \in Tasks :
    /\ t1 # t2
    /\ ReachedLedger(t1) /\ ReachedLedger(t2)
    /\ TaskBody(t1).request_uuid = TaskBody(t2).request_uuid
    /\ tasks[t1].result[1].kind = "Ok"
    /\ tasks[t2].step = "insert"
    /\ tasks[t2].result[1].kind = "DieselError"

\* C3: a call whose insert fails on a request_uuid that another call inserted
\* after its existence check returns RequestAlreadySeen, and its response is
\* the response of a replay caught by the existence check.
C3_ConflictIsReplay ==
  \A t \in Tasks :
    (Finished(t) /\ tasks[t].step = "insert" /\ tasks[t].result[1].kind # "Ok") =>
      /\ tasks[t].result[1].kind = "RequestAlreadySeen"
      /\ ApiError_from(tasks[t].result[1]) = ApiError_from(Err("RequestAlreadySeen", ""))

\* What the claims say of a score submission c.
Committed(c) == c.op = "post_new_highscore_table_score" /\ c.inserted # << >>

TableOf(c) == c.inserted[1].highscore_table_id

RowsOf(rows, table_id) == {e \in rows : e.highscore_table_id = table_id}

\* Canonical ranking: score descending, then created_at ascending.
RanksAbove(a, b) ==
  \/ a.player_score > b.player_score
  \/ a.player_score = b.player_score /\ a.creation_timestamp < b.creation_timestamp

\* C10: after a committed submission into a table with max_retained = N the
\* table holds min(N, rows after the insert) entries, all of them rows it
\* held right after the insert, and no deleted row ranks above a retained one.
C10_TopNRetained ==
  \A c \in last :
    Committed(c) =>
      \A t \in highscore_tables :
        (t.id = TableOf(c) /\ t.maximum_scores_retained # << >>) =>
          LET N == t.maximum_scores_retained[1]
              after_insert == RowsOf(c.entries_before \cup {c.inserted[1]}, t.id)
              retained == RowsOf(highscore_table_entries, t.id)
          IN  /\ Cardinality(retained) <= N
              /\ retained \subseteq after_insert
              /\ Cardinality(retained) =
                   (IF Cardinality(after_insert) < N THEN Cardinality(after_insert) ELSE N)
              /\ \A d \in after_insert \ retained : \A k \in retained : ~RanksAbove(d, k)

C10_Witness ==
  \E c \in last :
    /\ Committed(c)
    /\ \E t \in highscore_tables :
         /\ t.id = TableOf(c)
         /\ t.maximum_scores_retained = <<MaxRetained>>
         /\ Cardinality(RowsOf(c.entries_before, t.id)) = MaxRetained
         /\ Cardinality(RowsOf(highscore_table_entries, t.id)) = MaxRetained
         /\ c.inserted[1] \in highscore_table_entries
         /\ \E d \in c.entries_before \ highscore_table_entries :
              d.highscore_table_id = t.id

\* C11: a committed submission into a table with max_retained set leaves the
\* entries of every other table exactly as they were before the call.
C11_OtherTablesUntouched ==
  \A c \in last :
    Committed(c) =>
      \A t \in highscore_tables, b \in highscore_tables :
        (t.id = TableOf(c) /\ t.maximum_scores_retained # << >> /\ b.id # t.id) =>
          RowsOf(highscore_table_entries, b.id) = RowsOf(c.entries_before, b.id)

\* What the claims say of overlapping submissions.
Quiescent == \A t \in Tasks : tasks[t].pc \notin {"trim", "commit"}

\* C12: once every overlapping submission has committed, a table with
\* max_retained = N holds at most N entries, and no entry ever committed to
\* it and now gone ranks above one it still holds.
C12_TopNAfterOverlap ==
  Quiescent =>
    \A t \in highscore_tables :
      t.maximum_scores_retained # << >> =>
        LET retained == RowsOf(highscore_table_entries, t.id)
        IN  /\ Cardinality(retained) <= t.maximum_scores_retained[1]
            /\ \A d \in RowsOf(submitted, t.id) \ retained :
                 \A k \in retained : ~RanksAbove(d, k)

Listed(c) == c.op = "get_highscore_table_scores" /\ c.table_id # << >>

\* No call sees a row of a transaction that has not committed: not a
\* listing, not the DELETE of another transaction, and not the table itself.
NoPartialEffectSeen ==
  /\ \A c \in last : Listed(c) => c.loaded \cap c.in_flight = {}
  /\ \A t \in Tasks, o \in Tasks :
       (t # o /\ tasks[t].pc = "commit" /\ tasks[o].pc \in {"trim", "commit"}) =>
         tasks[o].inserted[1] \notin tasks[t].deleted
  /\ highscore_table_entries \cap InFlight = {}
  /\ highscore_table_entries \subseteq submitted

\* C13: a submission whose trim fails leaves the table as it was, without the
\* inserted entry and with no row deleted; and no call ever sees an entry
\* that is inserted but whose transaction has not committed.
C13_InsertTrimAtomic ==
  [][ /\ \A t \in Tasks :
           (tasks[t].pc = "trim" /\ tasks'[t].outcome = "aborted") =>
             /\ highscore_table_entries' = highscore_table_entries
             /\ tasks[t].inserted[1] \notin highscore_table_entries'
      /\ NoPartialEffectSeen' ]_vars

\* A submission into table 201, which was full, has been aborted.
C13_Witness ==
  \E t \in Tasks :
    /\ tasks[t].outcome = "aborted"
    /\ tasks[t].table[1].id = 1
    /\ Cardinality(RowsOf(highscore_table_entries, 1)) = MaxRetained

\* C14: a score submission that passed verification and then ended in an
\* error of the store has changed neither the highscore entries nor the
\* replay ledger.
C14_StoreErrorNoEffect ==
  \A c \in last :
    (/\ c.op = "post_new_highscore_table_score"
     /\ c.result.kind = "Ok"
     /\ c.response.status # 200) =>
      /\ highscore_table_entries = c.entries_before
      /\ historical_requests = c.requests_before

\* The rejections the client must not be able to tell apart.
ForbiddenKinds ==
  {"SecurityLevelNotAttained", "VerificationError", "BadRequestTimestamp",
   "RequestAlreadySeen"}

\* C15: every call rejected with SecurityLevelNotAttained, SignatureInvalid,
\* StaleOrFutureTimestamp or ReplayDetected gets one and the same response,
\* status and message: that of ApiError::forbidden().
C15_SameForbiddenResponse ==
  \A c \in last :
    c.result.kind \in ForbiddenKinds =>
      ApiError_from(c.result) = ApiError_from(Err("VerificationError", ""))

\* What the claims say of a listing c.
Min(a, b) == IF a < b THEN a ELSE b

\* Consecutive entries of a listing: score descending, created_at ascending
\* on equal scores.
InRankingOrder(scores) ==
  \A i \in 1..(Len(scores) - 1) :
    \/ scores[i].player_score > scores[i + 1].player_score
    \/ /\ scores[i].player_score = scores[i + 1].player_score
       /\ scores[i].creation_timestamp <= scores[i + 1].creation_timestamp

\* How often the response entry v occurs in a listing, and how many rows
\* are listed as v.
Occurrences(scores, v) == Cardinality({i \in 1..Len(scores) : scores[i] = v})

ListedAs(rows, v) == Cardinality({e \in rows : ScoresResponseEntry_from(e) = v})

\* The listing `scores` is the first Len(scores) entries of a ranking of rows.
PrefixOfRanking(scores, rows) ==
  /\ InRankingOrder(scores)
  /\ \A i \in 1..Len(scores) : Occurrences(scores, scores[i]) <= ListedAs(rows, scores[i])
  /\ \A e \in rows :
       Occurrences(scores, ScoresResponseEntry_from(e)) < ListedAs(rows, ScoresResponseEntry_from(e))
         => \A i \in 1..Len(scores) : ~RanksAbove(e, scores[i])

\* C16: after any run of submissions one after another, a table with
\* max_retained = N that started empty holds min(N, submitted) entries, none
\* of the entries ever submitted to it and dropped ranks above one it holds,
\* and a listing of the table returns all it holds in ranking order.
C16_TopNOfAllSubmitted ==
  \A t \in highscore_tables :
    t.maximum_scores_retained # << >> =>
      LET N == t.maximum_scores_retained[1]
          ever == RowsOf(submitted, t.id)
          retained == RowsOf(highscore_table_entries, t.id)
      IN  /\ retained \subseteq ever
          /\ Cardinality(retained) = Min(N, Cardinality(ever))
          /\ \A d \in ever \ retained : \A k \in retained : ~RanksAbove(d, k)
          /\ \A c \in last :
               (Listed(c) /\ c.table_id = <<t.id>> /\ c.limit = << >>) =>
                 /\ Len(c.scores) = Cardinality(retained)
                 /\ PrefixOfRanking(c.scores, retained)

\* More scores than the table retains were submitted, one of the dropped
\* ones ranks below a retained one, and the table has been listed.
C16_Witness ==
  \E c \in last :
    /\ Listed(c) /\ c.table_id = <<1>> /\ c.limit = << >>
    /\ Len(c.scores) = MaxRetained
    /\ \E d \in RowsOf(submitted, 1) \ highscore_table_entries :
         \E k \in RowsOf(highscore_table_entries, 1) : RanksAbove(k, d)
    /\ c.scores[1].player_score > c.scores[Len(c.scores)].player_score

\* C17: a listing returns entries of the listed table only, in ranking
\* order; with limit k it returns min(k, entries of the table) of them, the
\* first ones of the ranking, and without limit all of them.
C17_ListingOrderedAndLimited ==
  \A c \in last :
    Listed(c) =>
      LET rows == RowsOf(c.entries_before, c.table_id[1])
      IN  /\ Len(c.scores) =
               (IF c.limit = << >> THEN Cardinality(rows)
                ELSE Min(c.limit[1], Cardinality(rows)))
          /\ PrefixOfRanking(c.scores, rows)

\* A listing with limit 1 of a table that holds two entries with the same
\* score and different times, while another table holds entries too.
C17_Witness ==
  \E c \in last :
    /\ Listed(c) /\ c.limit = <<1>> /\ Len(c.scores) = 1
    /\ \E a \in RowsOf(c.entries_before, c.table_id[1]),
          b \in RowsOf(c.entries_before, c.table_id[1]) :
         /\ a.player_score = b.player_score
         /\ a.creation_timestamp < b.creation_timestamp
         /\ c.scores[1] = ScoresResponseEntry_from(a)
    /\ \E o \in c.entries_before : o.highscore_table_id # c.table_id[1]

C19_UnlimitedKeepsAll ==
  \A c \in last :
    Committed(c) =>
      \A t \in highscore_tables :
        (t.id = TableOf(c) /\ t.maximum_scores_retained = << >>) =>
          LET new_entry == c.inserted[1]
              params == c.result.body[1].body
          IN  /\ c.entries_before \subseteq highscore_table_entries
              /\ new_entry \notin c.entries_before
              /\ RowsOf(highscore_table_entries, t.id) =
                   RowsOf(c.entries_before, t.id) \cup {new_entry}
              /\ new_entry.player_name = params.player_name
              /\ new_entry.player_score = params.player_score
              /\ new_entry.player_score_metadata = params.player_score_metadata

\* The table without limit held MaxRetained entries and now holds one more.
C19_Witness ==
  \E c \in last :
    /\ Committed(c)
    /\ \E t \in highscore_tables :
         /\ t.id = TableOf(c)
         /\ t.maximum_scores_retained = << >>
         /\ Cardinality(RowsOf(c.entries_before, t.id)) = MaxRetained
         /\ Cardinality(RowsOf(highscore_table_entries, t.id)) = MaxRetained + 1

\* C20: a listing changes no highscore entry of any table, and what it
\* returns is the listing of the rows committed at one moment: it holds no
\* row of a transaction in flight and every row of the table that such a
\* transaction is about to delete.
C20_ListingPureSnapshot ==
  \A c \in last :
    Listed(c) =>
      /\ highscore_table_entries = c.entries_before
      /\ c.loaded = RowsOf(c.entries_before, c.table_id[1])
      /\ c.loaded \cap c.in_flight = {}
      /\ RowsOf(c.pending \cap c.entries_before, c.table_id[1]) \subseteq c.loaded
      /\ Len(c.scores) = Cardinality(c.loaded)
      /\ PrefixOfRanking(c.scores, c.loaded)

\* A table that holds committed entries is listed while a transaction that
\* has inserted into it has not committed.
C20_Witness ==
  \E c \in last :
    /\ Listed(c)
    /\ \E e \in c.in_flight : e.highscore_table_id = c.table_id[1]
    /\ Len(c.scores) > 0

\* The game that owns the table with this id.
OwnerOf(table_id) == {t.game_uuid : t \in {x \in highscore_tables : x.id = table_id}}

\* The call names a table that exists and belongs to another game than the
\* one whose secret verified it.
NamesForeignTable(c) ==
  /\ c.result.kind = "Ok"
  /\ \E t \in highscore_tables :
       /\ t.table_uuid = c.result.body[1].body.table_uuid
       /\ t.game_uuid # c.result.body[1].game_uuid

\* C21: an entry is inserted into a table only by a call verified for the
\* game that owns the table, and a table is listed only for that game; a
\* correctly signed call that names a table of another game is rejected and
\* changes no entry of any table.
C21_OnlyOwningGame ==
  \A c \in last :
    /\ Committed(c) => OwnerOf(TableOf(c)) = {c.result.body[1].game_uuid}
    /\ Listed(c) => OwnerOf(c.table_id[1]) = {c.result.body[1].game_uuid}
    /\ NamesForeignTable(c) =>
         /\ c.response.status # 200
         /\ c.inserted = << >>
         /\ c.op = "get_highscore_table_scores" => c.scores = << >>
         /\ highscore_table_entries = c.entries_before

\* A submission of game 102 names the table of game 101, which holds an
\* entry, and is rejected.
C21_Witness ==
  \E c \in last :
    /\ c.op = "post_new_highscore_table_score"
    /\ NamesForeignTable(c)
    /\ c.result.body[1].game_uuid = 102
    /\ RowsOf(c.entries_before, 3) # {}
    /\ c.response.status = 404

\* C22: a payload part that is not base64url, not UTF-8 or not an envelope
\* is answered DeserializeError and nothing else is; a signature part that
\* is not base64url or does not match, on a call that gets as far as the
\* signature check, is answered VerificationError, and VerificationError is
\* only ever the answer to a payload part that decodes; the two kinds are
\* reported differently.
C22_DecodeAndSignatureDistinct ==
  /\ ApiError_from(Err("DeserializeError", "")) # ApiError_from(Err("VerificationError", ""))
  /\ \A c \in last :
       /\ c.result.kind = "DeserializeError" <=> ~Decodes(c)
       /\ c.result.kind = "VerificationError" => (Decodes(c) /\ ~CorrectlySigned(c))
       /\ (Decodes(c) /\ GameOf(c) # {} /\ MeetsLevel(c) /\ ~CorrectlySigned(c)) =>
            c.result.kind = "VerificationError"

\* A call whose signature part is not base64url was answered
\* VerificationError.
C22_Witness ==
  \E c \in last :
    /\ Decodes(c)
    /\ c.payload.signature_base64.form = "badb64"
    /\ c.result.kind = "VerificationError"

\* The characters of a text.
CharsOf(s) == {s[i] : i \in 1..Len(s)}

\* C23: parsing a raw text succeeds exactly when the text holds a '.'; the
\* payload part then holds no '.', and payload part, '.', signature part put
\* together give the text back.
C23_SplitAtFirstDot ==
  \A c \in last :
    c.op = "from_str" =>
      /\ c.parsed.ok <=> "." \in CharsOf(c.text)
      /\ c.parsed.ok =>
           LET p == c.parsed.payload[1]
           IN  /\ "." \notin CharsOf(p.payload_base64)
               /\ p.payload_base64 \o <<".">> \o p.signature_base64 = c.text

\* A text with two dots was parsed: the second dot is in the signature part.
C23_Witness ==
  \E c \in last :
    /\ c.op = "from_str"
    /\ c.parsed.ok
    /\ "." \in CharsOf(c.parsed.payload[1].signature_base64)
    /\ Len(c.parsed.payload[1].payload_base64) > 0

\* C24: an envelope that decodes and names no stored game is answered
\* NoSuchGame, reported as 404, whatever its algorithm, signature,
\* timestamp and request uuid, and the ledger is left as it was.
C24_UnknownGameNotFound ==
  \A c \in last :
    (c.op = "full_verify" /\ Decodes(c) /\ GameOf(c) = {}) =>
      /\ c.result.kind = "NoSuchGame"
      /\ ApiError_from(c.result).status = 404
      /\ historical_requests = c.requests_before

\* An envelope for an unknown game, stale and with a request uuid already
\* in the ledger, was answered NoSuchGame.
C24_Witness ==
  \E c \in last :
    /\ c.op = "full_verify"
    /\ Decodes(c)
    /\ GameOf(c) = {}
    /\ ~WithinSkew(c)
    /\ SeenBefore(c)
    /\ c.result.kind = "NoSuchGame"

\* The positions at which statement st was sent in a call's log.
SentAt(log, st) == {i \in 1..Len(log) : log[i] = st}

\* C25: when the store fails a statement of a score submission, that
\* statement is the last one sent and was sent once, the call is answered
\* with the store's error, and what it has written is what the statements
\* before it wrote: a failed existence check or ledger insert leaves the
\* ledger as it was, and no highscore entry changes.
C25_StoreFailureStops ==
  \A c \in last :
    /\ \A st \in Faults : Cardinality(SentAt(c.log, st)) <= 1
    /\ (c.fault = "none" /\ c.result.kind # "Ok") =>
         c.result = full_verify_at_time(c.payload, c.requests_before, c.now).result
    /\ SentAt(c.log, c.fault) # {} =>
         /\ c.log[Len(c.log)] = c.fault
         /\ c.response = ApiError_from_diesel(StoreFailure)
         /\ c.response.status = 500
         /\ c.inserted = << >>
         /\ highscore_table_entries = c.entries_before
         /\ c.fault \in {"find_game", "request_exists", "insert_request"} =>
              /\ c.result = Err("DieselError", StoreFailure)
              /\ historical_requests = c.requests_before
         /\ c.fault \in {"find_table", "insert_entry", "remove_extra"} =>
              c.result.kind = "Ok"

\* The existence check of a valid submission with a fresh request uuid
\* failed.
C25_Witness ==
  \E c \in last :
    /\ c.fault = "request_exists"
    /\ c.log = <<"find_game", "request_exists">>
    /\ ~SeenBefore(c)
    /\ c.requests_before # {}
    /\ c.result.kind = "DieselError"

\* An entry as the submission that created it inserted it.
AsInserted(e) == \E s \in submitted : s = e

\* The table a committed submission inserted into.
TableRowOf(c) == CHOOSE t \in highscore_tables : t.id = TableOf(c)

\* One step of the store as the entries see it: no entry that stays changes
\* a field, an entry appears only as the one entry of the submission that
\* commits in this step, and entries disappear only in the trim of a
\* submission into a table with a retention limit.
EntriesStep ==
  LET added == highscore_table_entries' \ highscore_table_entries
      removed == highscore_table_entries \ highscore_table_entries'
  IN  /\ \A e \in highscore_table_entries, f \in highscore_table_entries' :
           e.id = f.id => e = f
      /\ added # {} =>
           \E c \in last' : Committed(c) /\ added = {c.inserted[1]} /\ last = {}
      /\ removed # {} =>
           \E c \in last' : /\ Committed(c)
                             /\ last = {}
                             /\ TableRowOf(c).maximum_scores_retained # << >>
                             /\ Cardinality(highscore_table_entries') <
                                  Cardinality(highscore_table_entries) + 1

\* C26: a highscore entry is never changed after its insert: every entry in
\* the store has the id, table, player name, score, metadata and creation
\* time it was inserted with, no two entries share an id, and the set of
\* entries changes only by the one insert of a committed submission and by
\* the deletions of its retention trim.
C26_EntriesImmutable ==
  /\ [](/\ \A e \in highscore_table_entries : AsInserted(e)
        /\ \A e, f \in submitted : e.id = f.id => e = f)
  /\ [][EntriesStep]_vars

\* A trim has deleted an entry and left an older one in place.
C26_Witness ==
  \E c \in last :
    /\ Committed(c)
    /\ c.entries_before \ highscore_table_entries # {}
    /\ c.entries_before \cap highscore_table_entries # {}

\* The entry the submission of call c would have inserted had the client
\* written request_timestamp ts (and signed that), everything else equal:
\* a sequence of one entry, or empty when that submission is rejected.
InsertedWithStamp(c, ts) ==
  LET body == [BodyOfPayload(c.payload) EXCEPT !.request_timestamp = ts]
      v == full_verify_at_time(SignedStamp(body), c.requests_before, c.now)
      found == find_table(body.body.table_uuid, body.game_uuid)
  IN  IF v.result.kind # "Ok" \/ found = {} THEN << >>
      ELSE <<NewHighscoreTableEntry(c.inserted[1].id, CHOOSE t \in found : TRUE,
                                    v.result.body[1], c.now)>>

\* C27: the creation time of an inserted entry is the store's time at the
\* insert, and the same submission with any other accepted
\* request_timestamp, made at the same store time, inserts the same entry.
C27_CreatedAtIsStoreTime ==
  \A c \in last :
    Committed(c) =>
      /\ c.inserted[1].creation_timestamp = c.now
      /\ \A ts \in Timestamps :
           InsertedWithStamp(c, ts) \in {<< >>, c.inserted}

\* A committed submission whose request_timestamp is not the store's time
\* and that would also have been accepted with a later request_timestamp.
C27_Witness ==
  \E c \in last :
    /\ Committed(c)
    /\ Seconds(BodyOfPayload(c.payload).request_timestamp) < c.now
    /\ \E ts \in Timestamps :
         /\ ts > BodyOfPayload(c.payload).request_timestamp
         /\ InsertedWithStamp(c, ts) # << >>
    /\ c.entries_before # {}

\* The ledger as it was before the concurrent calls started.
LedgerAtStart == {r \in historical_requests : r.timestamp < Epoch}

\* The request uuid a started call carries, if its envelope has one.
CarriedUuids(t) ==
  IF tasks[t].pc = "idle" \/ deserialize(tasks[t].payload[1]).kind # "Ok" THEN {}
  ELSE {TaskBody(t).request_uuid}

\* No other call carries the request uuid of call t.
Unshared(t) ==
  /\ CarriedUuids(t) # {}
  /\ \A o \in Tasks \ {t} : CarriedUuids(o) \cap CarriedUuids(t) = {}

\* C28: a verification whose request_uuid no concurrent verification
\* carries returns, in every interleaving, what it returns when run alone
\* on the ledger the calls started from; the request uuid of each such
\* verification that returned the body is in the ledger.
C28_DistinctUuidsIndependent ==
  \A t \in Tasks :
    (Finished(t) /\ Unshared(t)) =>
      /\ tasks[t].result[1] =
           full_verify_at_time(tasks[t].payload[1], LedgerAtStart, tasks[t].now).result
      /\ tasks[t].result[1].kind = "Ok" =>
           request_exists(historical_requests, TaskBody(t).request_uuid)

\* Two concurrent calls with different request uuids both returned the body
\* and both request uuids are in the ledger.
C28_Witness ==
  \E t1, t2 \in Tasks :
    /\ t1 # t2
    /\ Finished(t1) /\ Finished(t2)
    /\ Unshared(t1) /\ Unshared(t2)
    /\ tasks[t1].result[1].kind = "Ok" /\ tasks[t2].result[1].kind = "Ok"
    /\ Cardinality(historical_requests) = 2

\* The rows of table 202 after one more committed submission, had the
\* table been created with retention limit `limit`.
AfterSubmissionWithLimit(limit, tie) ==
  LET table == [id |-> 2, game_uuid |-> 102, table_uuid |-> 202,
                maximum_scores_retained |-> limit]
      tx == insert_and_retain(highscore_table_entries, entry_id_seq, table,
                              ScoreBody(NumScoreRequests, Params(202, 10)), clock, tie)
  IN  IF tx.error # "" THEN {} ELSE RowsOf(tx.rows, 2)

OwnedByRequester(c) ==
  c.object # << >> /\ c.object[1].developer_uuid = c.requesting_user.user_uuid

\* C30: check_permission grants a requester who is not an admin the object
\* exactly when it exists and its owning developer uuid is the requester's,
\* and otherwise answers forbidden, for a missing object as for one owned
\* by someone else; it grants an admin every object that exists and answers
\* not-found for a missing one.  What is granted is the object itself.
C30_PermissionRule ==
  \A c \in last :
    c.op = "check_permission" =>
      /\ c.result.kind = "Ok" => c.result.object = c.object
      /\ ~c.requesting_user.is_admin =>
           /\ c.result.kind = "Ok" <=> OwnedByRequester(c)
           /\ ~OwnedByRequester(c) =>
                c.result.error = <<[status |-> 403, message |-> "Forbidden"]>>
      /\ c.requesting_user.is_admin =>
           /\ c.result.kind = "Ok" <=> c.object # << >>
           /\ c.object = << >> =>
                c.result.error = <<[status |-> 404, message |-> "Not Found"]>>

\* An admin was granted an object owned by another developer.
C30_Witness ==
  \E c \in last :
    /\ c.op = "check_permission"
    /\ c.requesting_user.is_admin
    /\ c.object # << >>
    /\ ~OwnedByRequester(c)
    /\ c.result.kind = "Ok"

\* C31: with the cleanup job running at any time, no envelope has more
\* than one call that returned its body: a call that carries an envelope
\* accepted before fails, as a replay while its ledger row is there and on
\* its timestamp once the row is gone.
C31_CleanupKeepsReplayProtection ==
  /\ \A p \in CleanupPayloads : returned[p] <= 1
  /\ \A c \in last :
       c.repeat =>
         /\ c.result.kind \in {"RequestAlreadySeen", "BadRequestTimestamp"}
         /\ ~request_exists(c.requests_before, BodyOfPayload(c.payload).request_uuid) =>
              c.result.kind = "BadRequestTimestamp"

\* An envelope accepted before is sent again after the cleanup job deleted
\* its ledger row, and is rejected.
C31_Witness ==
  \E c \in last :
    /\ c.repeat
    /\ c.requests_before = {}
    /\ c.result.kind = "BadRequestTimestamp"

\* The position of statement st in a call's log (0 when it was not sent).
PositionOf(log, st) == IF SentAt(log, st) = {} THEN 0 ELSE CHOOSE i \in SentAt(log, st) : TRUE

\* The handler of submission c failed after verification had succeeded.
FailedAfterVerification(c) ==
  /\ c.op = "post_new_highscore_table_score"
  /\ c.result.kind = "Ok"
  /\ c.response.status # 200

\* C32: the ledger insert of a submission comes before its table lookup,
\* so a submission that passed verification and whose handler then failed
\* (no such table, a table of another game, a failed statement of the
\* lookup or of the score transaction) has its request_uuid in the ledger
\* with no entry inserted, and the same envelope sent again is rejected as
\* a replay.
C32_FailedHandlerConsumesUuid ==
  \A c \in last :
    /\ (c.op = "post_new_highscore_table_score" /\ SentAt(c.log, "find_table") # {}) =>
         /\ PositionOf(c.log, "insert_request") > 0
         /\ PositionOf(c.log, "insert_request") < PositionOf(c.log, "find_table")
    /\ FailedAfterVerification(c) =>
         /\ request_exists(historical_requests, BodyOfPayload(c.payload).request_uuid)
         /\ ~request_exists(c.requests_before, BodyOfPayload(c.payload).request_uuid)
         /\ c.inserted = << >>
         /\ full_verify_at_time(c.payload, historical_requests, clock).result
              = Err("RequestAlreadySeen", "")
    /\ (c.op = "post_new_highscore_table_score" /\ c.fault = "none" /\ SeenBefore(c)) =>
         /\ c.result = Err("RequestAlreadySeen", "")
         /\ ApiError_from(c.result).status = 403

\* A submission into the table of another game is sent again after its
\* handler failed: no entry was ever inserted, its request_uuid is in the
\* ledger, and the retry is rejected.
C32_Witness ==
  \E c \in last :
    /\ c.op = "post_new_highscore_table_score"
    /\ c.fault = "none"
    /\ BodyOfPayload(c.payload).body.table_uuid = 204
    /\ SeenBefore(c)
    /\ Cardinality(c.requests_before) = 1
    /\ submitted = {}
    /\ c.result.kind = "RequestAlreadySeen"

\* Call c answered with success: the scores of a listing, or the
\* confirmation of a submission.
Succeeded(c) == c.response.status = 200

\* C33: a listing is verified like a submission: a listing that returns
\* scores has put its request_uuid, which was not there, into the ledger;
\* a listing or submission whose request_uuid is in the ledger fails with
\* the replay response and returns or inserts nothing; so no request_uuid
\* has more than one call, listing or submission, that passed verification.
C33_ReadsReplayProtected ==
  /\ \A u \in ScoreRequestUuids : returned[u] <= 1
  /\ \A c \in last :
       /\ (c.op = "get_highscore_table_scores" /\ Succeeded(c)) =>
            /\ ~SeenBefore(c)
            /\ request_exists(historical_requests, BodyOfPayload(c.payload).request_uuid)
            /\ historical_requests # c.requests_before
       /\ SeenBefore(c) =>
            /\ c.result = Err("RequestAlreadySeen", "")
            /\ c.response = [status |-> 403, message |-> "Forbidden"]
            /\ c.inserted = << >>
            /\ c.op = "get_highscore_table_scores" => c.scores = << >>
            /\ highscore_table_entries = c.entries_before

\* A listing is rejected because the one request_uuid in the ledger, its
\* own, was used by a submission that committed an entry.
C33_Witness ==
  \E c \in last :
    /\ c.op = "get_highscore_table_scores"
    /\ SeenBefore(c)
    /\ Cardinality(c.requests_before) = 1
    /\ Cardinality(submitted) = 1
    /\ ~Succeeded(c)

\* Submission c went into a table that retains N entries and held N, with
\* a score no higher than the lowest of them, and was inserted at a later
\* store time than every entry whose score it equals.
BelowFullTable(c) ==
  /\ Committed(c)
  /\ TableRowOf(c).maximum_scores_retained # << >>
  /\ LET held == RowsOf(c.entries_before, TableOf(c))
         new == c.inserted[1]
     IN  /\ Cardinality(held) = TableRowOf(c).maximum_scores_retained[1]
         /\ \A e \in held :
              \/ new.player_score < e.player_score
              \/ /\ new.player_score = e.player_score
                 /\ e.creation_timestamp < new.creation_timestamp

\* C34: a submission into a table that retains N entries and holds N, with
\* a score lower than the lowest retained one, or equal to it and inserted
\* later, is answered with success and leaves the table's entries as they
\* were: the row removed is the newcomer.
C34_LowNewcomerDropped ==
  \A c \in last :
    BelowFullTable(c) =>
      /\ c.response = [status |-> 200, message |-> "New score added successfully"]
      /\ RowsOf(highscore_table_entries, TableOf(c)) = RowsOf(c.entries_before, TableOf(c))
      /\ c.inserted[1] \notin highscore_table_entries

\* A newcomer that equals the lowest retained score of a full table.
C34_Witness ==
  \E c \in last :
    /\ BelowFullTable(c)
    /\ \E e \in RowsOf(c.entries_before, TableOf(c)) :
         /\ e.player_score = c.inserted[1].player_score
         /\ \A o \in RowsOf(c.entries_before, TableOf(c)) : o.player_score >= e.player_score
    /\ \E e \in RowsOf(c.entries_before, TableOf(c)) :
         e.player_score > c.inserted[1].player_score

\* C35: Low is encoded as 0 and High as 10; decoding the code of a level
\* gives the level back; decoding succeeds for 0 and 10 only; the codes
\* compare as the levels do, so the check of a request's level against the
\* integer stored for a game rejects exactly the requests whose level is
\* below the level the game demands.
C35_LevelCodecOrderPreserving ==
  \A c \in last :
    c.op = "try_from" =>
      /\ c.encoded = (IF c.level = "Low" THEN 0 ELSE 10)
      /\ c.round_trip = [kind |-> "Ok", level |-> <<c.level>>]
      /\ c.decoded.kind = "Ok" <=> c.code \in {0, 10}
      /\ c.decoded.kind = "Ok" => i32_from(c.decoded.level[1]) = c.code
      /\ (c.encoded < c.stored) <=> SecurityLevel_lt(c.level, c.demanded)
      /\ c.too_low <=> SecurityLevel_lt(c.level, c.demanded)

\* A Low request against a game that demands High, beside an integer that
\* is no code of a level.
C35_Witness ==
  \E c \in last :
    /\ c.op = "try_from"
    /\ c.level = "Low" /\ c.demanded = "High"
    /\ c.too_low
    /\ c.code \notin {0, 10}
    /\ c.code > 0
    /\ c.decoded.kind = "TryFromSecurityLevelError"

====
